---- MODULE Spec2Model ----
(***************************************************************************)
(* A model of the raytracer crate: the f32 value domain (finite values,    *)
(* signed zeros, infinities, NaN), Vector / Point algebra, the quadratic   *)
(* root finder, the four object solvers, the camera and the renderer.      *)
(*                                                                         *)
(* Arithmetic is the real arithmetic of the source on exact rationals:     *)
(* a finite f32 is a sign bit and a reduced fraction n/d.  What IEEE-754   *)
(* adds to the reals is kept: the sign of zero, division by zero, the      *)
(* infinities and NaN, with the sign bit that is_sign_positive reads.      *)
(* Rounding of finite results is not modelled, except in sqrt, which is    *)
(* exact on perfect squares and rounds down to the radicand's grid         *)
(* otherwise.                                                              *)
(*                                                                         *)
(* A value the source binds with `let` and reads more than once is the     *)
(* parameter of a local operator here, applied to the bound expression:    *)
(* the operator's body then names the value, not the expression.           *)
(***************************************************************************)
EXTENDS Integers, Sequences, FiniteSets, TLC

VARIABLES
    pc,         \* position: "start", "ready" once the model is built, "done"
    debug,      \* build configuration: TRUE when debug_assert! is compiled in
    nanSign,    \* sign bit the platform gives a NaN produced by arithmetic
    camera,     \* bin.rs Model.camera (render::Camera)
    scene,      \* bin.rs Model.scene (scene::Scene)
    renderer,   \* bin.rs Model.renderer (render::Renderer)
    pixel,      \* record of the last Renderer::render_pixel call
    probe       \* record of the last solver / root finder call

vars == <<pc, debug, nanSign, camera, scene, renderer, pixel, probe>>

----------------------------------------------------------------------------
(* f32 values *)

RECURSIVE GCD(_, _)
GCD(a, b) == IF b = 0 THEN a ELSE GCD(b, a % b)

\* A finite value (-1)^s * n/d, reduced; zero keeps its sign bit.
Fin(s, n, d) ==
    IF n = 0 THEN [k |-> "fin", s |-> s, n |-> 0, d |-> 1]
    ELSE LET Reduced(g) == [k |-> "fin", s |-> s, n |-> n \div g, d |-> d \div g]
         IN Reduced(GCD(n, d))

\* The fraction num/den for a signed numerator.
Q(num, den) == IF num < 0 THEN Fin(1, -num, den) ELSE Fin(0, num, den)

Int2F(i) == Q(i, 1)

Inf(s) == [k |-> "inf", s |-> s, n |-> 1, d |-> 0]

\* f32::NAN, the constant: sign bit clear.
NAN == [k |-> "nan", s |-> 0, n |-> 0, d |-> 0]

\* A NaN produced by an arithmetic operation: its sign bit is the platform's,
\* written 2 (and 3 for the opposite bit, after a negation).
ArithNaN == [k |-> "nan", s |-> 2, n |-> 0, d |-> 0]

is_nan(x) == x.k = "nan"

\* The sign bit of a value on this platform.
SignBit(x) == CASE x.s = 2 -> nanSign [] x.s = 3 -> 1 - nanSign [] OTHER -> x.s

is_sign_positive(x) == SignBit(x) = 0

IsZero(x) == x.k = "fin" /\ x.n = 0

Xor(a, b) == IF a = b THEN 0 ELSE 1

\* Comparison of two non-negative fractions without cross-multiplying
\* (continued fractions), so that 1e-7 can stand next to small integers.
\* -1, 0 or 1.
RECURSIVE CmpFrac(_, _, _, _)
CmpFrac(n1, d1, n2, d2) ==
    LET q1 == n1 \div d1
        q2 == n2 \div d2
        r1 == n1 % d1
        r2 == n2 % d2
    IN IF q1 < q2 THEN -1
       ELSE IF q1 > q2 THEN 1
       ELSE IF r1 = 0 /\ r2 = 0 THEN 0
       ELSE IF r1 = 0 THEN -1
       ELSE IF r2 = 0 THEN 1
       ELSE CmpFrac(d2, r2, d1, r1)

\* Numeric order of two non-NaN values: -1, 0 or 1.  -0 and +0 are equal.
CmpNum(x, y) ==
    LET rank(v) == IF v.k = "inf" THEN (IF v.s = 1 THEN -2 ELSE 2)
                   ELSE IF v.n = 0 THEN 0
                   ELSE IF v.s = 1 THEN -1 ELSE 1
    IN IF rank(x) < rank(y) THEN -1
       ELSE IF rank(x) > rank(y) THEN 1
       ELSE IF rank(x) = 1 THEN CmpFrac(x.n, x.d, y.n, y.d)
       ELSE IF rank(x) = -1 THEN CmpFrac(y.n, y.d, x.n, x.d)
       ELSE 0

FLt(x, y) == ~is_nan(x) /\ ~is_nan(y) /\ CmpNum(x, y) < 0
FLe(x, y) == ~is_nan(x) /\ ~is_nan(y) /\ CmpNum(x, y) <= 0
FGt(x, y) == FLt(y, x)
FGe(x, y) == FLe(y, x)
FEq(x, y) == ~is_nan(x) /\ ~is_nan(y) /\ CmpNum(x, y) = 0

\* f32::total_cmp: -NaN < -inf < negatives < -0 < +0 < positives < +inf < +NaN.
total_cmp(x, y) ==
    LET rank(v) == IF v.k = "nan" THEN (IF SignBit(v) = 1 THEN -4 ELSE 4)
                   ELSE IF v.k = "inf" THEN (IF v.s = 1 THEN -3 ELSE 3)
                   ELSE IF v.n = 0 THEN (IF v.s = 1 THEN -1 ELSE 1)
                   ELSE IF v.s = 1 THEN -2 ELSE 2
    IN IF rank(x) < rank(y) THEN -1
       ELSE IF rank(x) > rank(y) THEN 1
       ELSE IF rank(x) = 2 THEN CmpFrac(x.n, x.d, y.n, y.d)
       ELSE IF rank(x) = -2 THEN CmpFrac(y.n, y.d, x.n, x.d)
       ELSE 0

FNeg(x) == [x EXCEPT !.s = CASE @ = 0 -> 1 [] @ = 1 -> 0 [] @ = 2 -> 3 [] @ = 3 -> 2]

FAbs(x) == [x EXCEPT !.s = 0]

FMul(x, y) ==
    IF is_nan(x) \/ is_nan(y) THEN ArithNaN
    ELSE IF x.k = "inf" \/ y.k = "inf"
         THEN IF IsZero(x) \/ IsZero(y) THEN ArithNaN ELSE Inf(Xor(x.s, y.s))
    ELSE Fin(Xor(x.s, y.s), x.n * y.n, x.d * y.d)

FDiv(x, y) ==
    IF is_nan(x) \/ is_nan(y) THEN ArithNaN
    ELSE IF x.k = "inf"
         THEN IF y.k = "inf" THEN ArithNaN ELSE Inf(Xor(x.s, y.s))
    ELSE IF y.k = "inf" THEN Fin(Xor(x.s, y.s), 0, 1)
    ELSE IF y.n = 0
         THEN IF x.n = 0 THEN ArithNaN ELSE Inf(Xor(x.s, y.s))
    ELSE Fin(Xor(x.s, y.s), x.n * y.d, x.d * y.n)

FAdd(x, y) ==
    IF is_nan(x) \/ is_nan(y) THEN ArithNaN
    ELSE IF x.k = "inf"
         THEN IF y.k = "inf" /\ y.s # x.s THEN ArithNaN ELSE x
    ELSE IF y.k = "inf" THEN y
    ELSE LET Signed(v) == IF v.s = 1 THEN -v.n ELSE v.n
             Sum(num, den) ==
                 IF num = 0
                 THEN Fin(IF x.s = 1 /\ y.s = 1 THEN 1 ELSE 0, 0, 1)
                 ELSE Q(num, den)
             Over(g) ==
                 Sum(Signed(x) * (y.d \div g) + Signed(y) * (x.d \div g),
                     (x.d \div g) * y.d)
         IN Over(GCD(x.d, y.d))

FSub(x, y) == FAdd(x, FNeg(y))

\* Largest r in lo..hi with r * r <= m (bisection).
RECURSIVE ISqrtIn(_, _, _)
ISqrtIn(m, lo, hi) ==
    IF lo >= hi THEN lo
    ELSE LET mid == (lo + hi + 1) \div 2
         IN IF mid * mid <= m THEN ISqrtIn(m, mid, hi) ELSE ISqrtIn(m, lo, mid - 1)

\* 46340 * 46340 is the largest square of the 32-bit integers of the checker.
ISqrt(m) == ISqrtIn(m, 0, IF m < 46340 THEN m ELSE 46340)

IsSquare(m) == LET Squares(r) == r * r = m IN Squares(ISqrt(m))

\* f32::sqrt: sqrt(n/d) = sqrt(n*d)/d, exact when n*d is a perfect square.
FSqrt(x) ==
    IF is_nan(x) THEN ArithNaN
    ELSE IF x.k = "inf" THEN (IF x.s = 1 THEN ArithNaN ELSE x)
    ELSE IF x.n = 0 THEN x
    ELSE IF x.s = 1 THEN ArithNaN
    ELSE Fin(0, ISqrt(x.n * x.d), x.d)

\* TRUE when FSqrt(x) is the exact square root.
SqrtExact(x) == x.k # "fin" \/ x.s = 1 \/ IsSquare(x.n * x.d)

\* f32::powi(2)
Sq(x) == FMul(x, x)

\* f32::signum: 1.0 or -1.0 by the sign bit, NaN for NaN.
signum(x) == IF is_nan(x) THEN ArithNaN ELSE Fin(x.s, 1, 1)

\* `as u8`: truncation toward zero, saturating, NaN to 0.
AsU8(x) ==
    IF is_nan(x) THEN 0
    ELSE IF x.s = 1 THEN 0
    ELSE IF x.k = "inf" THEN 255
    ELSE IF x.n \div x.d > 255 THEN 255 ELSE x.n \div x.d

Zero == Int2F(0)
One == Int2F(1)
Two == Int2F(2)
Four == Int2F(4)

\* The literal 1e-7 of polynom2.rs and plan.rs.
Eps7Den == 10000000
Eps7 == Fin(0, 1, Eps7Den)

----------------------------------------------------------------------------
(* maths::Vector and maths::Point *)

Vec(x, y, z) == [x |-> x, y |-> y, z |-> z]

\* A vector or point with fractional coordinates x/d, y/d, z/d.
VQ(x, y, z, d) == Vec(Q(x, d), Q(y, d), Q(z, d))

VecZ == VQ(0, 0, 1, 1)

ORIGIN == VQ(0, 0, 0, 1)

dot(u, v) == FAdd(FAdd(FMul(u.x, v.x), FMul(u.y, v.y)), FMul(u.z, v.z))

VAdd(u, v) == Vec(FAdd(u.x, v.x), FAdd(u.y, v.y), FAdd(u.z, v.z))

VSub(u, v) == Vec(FSub(u.x, v.x), FSub(u.y, v.y), FSub(u.z, v.z))

VScale(u, f) == Vec(FMul(u.x, f), FMul(u.y, f), FMul(u.z, f))

VDivF(u, f) == Vec(FDiv(u.x, f), FDiv(u.y, f), FDiv(u.z, f))

\* Neg for Vector: self * -1.
VNeg(u) == VScale(u, Int2F(-1))

cross(u, v) ==
    Vec(FSub(FMul(u.y, v.z), FMul(u.z, v.y)),
        FSub(FMul(u.z, v.x), FMul(u.x, v.z)),
        FSub(FMul(u.x, v.y), FMul(u.y, v.x)))

magn2(u) == FAdd(FAdd(Sq(u.x), Sq(u.y)), Sq(u.z))

magn(u) == FSqrt(magn2(u))

normalize(u) == VDivF(u, magn(u))

\* The literal 1e-6 of Vector::is_normalized.
Eps6Den == 1000000
Eps6 == Fin(0, 1, Eps6Den)

is_normalized(u) == FLe(FAbs(FSub(magn(u), One)), Eps6)

----------------------------------------------------------------------------
(* maths::Polynom2 *)

None == <<>>
Some(v) == <<v>>
IsSome(o) == Len(o) = 1
Unwrap(o) == o[1]

discriminant(a, b, c) == FSub(Sq(b), FMul(FMul(Four, a), c))

\* Polynom2::roots: None, or Some of a pair <<r1, r2>>.
roots(a, b, c) ==
    LET Ordered(r1, r2) == IF FGt(r1, r2) THEN Some(<<r2, r1>>) ELSE Some(<<r1, r2>>)
        Both(sqr) ==
            Ordered(FDiv(FSub(FNeg(b), sqr), FMul(Two, a)),
                    FDiv(FAdd(FNeg(b), sqr), FMul(Two, a)))
        Of(delta) ==
            IF FLt(delta, Zero) THEN None
            ELSE IF FLe(delta, Eps7)
                 THEN Some(<<FMul(FDiv(FNeg(b), Two), a), NAN>>)
            ELSE Both(FSqrt(delta))
    IN Of(discriminant(a, b, c))

\* x.into_iter().find(|r| r.is_sign_positive()) on a pair of roots.
FindSignPositive(x) ==
    IF is_sign_positive(x[1]) THEN Some(x[1])
    ELSE IF is_sign_positive(x[2]) THEN Some(x[2])
    ELSE None

\* roots().and_then(find sign positive): the distance the quadric solvers keep.
PickRoot(rts) == IF IsSome(rts) THEN FindSignPositive(Unwrap(rts)) ELSE None

----------------------------------------------------------------------------
(* Angles.  An angle written in degrees is the record <<deg, conv = 0>>;    *)
(* f32::to_radians multiplies by pi/180, counted in conv, so that the value *)
(* is deg * (pi/180)^conv.  The trigonometric functions are tabulated on    *)
(* the angles whose values are rational.                                    *)

Degrees(d) == [deg |-> d, conv |-> 0]

\* std::f32::consts::PI, in radians.
PI == [deg |-> 180, conv |-> 1]

\* angle / 2. on an angle whose degrees are even.
HalfAngle(a) == [a EXCEPT !.deg = @ \div 2]

\* f32::sin_cos, <<sin, cos>>: of 0 (in any unit) and of 90 degrees; of 45
\* degrees, where both are sqrt(1/2).  Of 90 degrees that went through
\* to_radians twice, 90 * (pi/180)^2 = 0.0274156 radians, the sine and
\* cosine are those of the nearest angle whose half tangent is 1/73:
\* 0.0273921 and 0.9996248 (f32 gives 0.0274121 and 0.9996242).
sin_cos(a) ==
    CASE a.deg = 0                -> <<Zero, One>>
      [] a.conv = 1 /\ a.deg = 90 -> <<One, Zero>>
      [] a.conv = 1 /\ a.deg = 45 -> <<FSqrt(Q(1, 2)), FSqrt(Q(1, 2))>>
      [] a.conv = 2 /\ a.deg = 90 -> <<Q(73, 2665), Q(2664, 2665)>>

\* f32::tan of an angle in radians: of 45 degrees, and of the angle
\* atan(4/3) = 53.13... degrees, written 53.
Tan(a) ==
    CASE a.conv = 1 /\ a.deg = 45  -> One
      [] a.conv = 1 /\ a.deg = 53  -> Q(4, 3)
      [] a.conv = 1 /\ a.deg = 0   -> Zero
      [] a.conv = 1 /\ a.deg = -45 -> Int2F(-1)

to_radians(a) == [a EXCEPT !.conv = @ + 1]

\* angle.tan().powi(2) for an angle in radians (conv = 1):
\* tan^2 of 30, 45 and 60 degrees is 1/3, 1 and 3.
TanSq(a) ==
    CASE a.conv = 1 /\ a.deg = 0  -> Zero
      [] a.conv = 1 /\ a.deg = 30 -> Q(1, 3)
      [] a.conv = 1 /\ a.deg = 45 -> One
      [] a.conv = 1 /\ a.deg = 60 -> Int2F(3)

----------------------------------------------------------------------------
(* render::Ray, render::Intersection, scene::objects *)

Ray(orig, dir) == [orig |-> orig, dir |-> dir]

Intersection(dist, pos, normal) == [dist |-> dist, pos |-> pos, normal |-> normal]

\* One record shape for the four implementors of the Object trait.
Obj(type, pos, dir, norm, radius, angle) ==
    [type |-> type, pos |-> pos, dir |-> dir, norm |-> norm,
     radius |-> radius, angle |-> angle]

NewSphere(pos, radius) == Obj("Sphere", pos, ORIGIN, ORIGIN, radius, Degrees(0))

NewCylinder(pos, dir, radius) ==
    Obj("Cylinder", pos, normalize(dir), ORIGIN, radius, Degrees(0))

NewCone(pos, dir, angle) ==
    Obj("Cone", pos, normalize(dir), ORIGIN, Zero, to_radians(angle))

NewPlan(pos, norm) == Obj("Plan", pos, ORIGIN, normalize(norm), Zero, Degrees(0))

\* The quadratic of Sphere::intersect.
SphereCoef(self, ray) ==
    LET Of(adj) ==
            [a |-> One,
             b |-> FMul(Two, dot(adj, ray.dir)),
             c |-> FSub(magn2(adj), Sq(self.radius))]
    IN Of(VSub(ray.orig, self.pos))

SphereIntersect(self, ray) ==
    LET At(dist, pos) == Some(Intersection(dist, pos, normalize(VSub(pos, self.pos))))
        Hit(d) ==
            IF IsSome(d)
            THEN At(Unwrap(d), VAdd(ray.orig, VScale(ray.dir, Unwrap(d))))
            ELSE None
        Solve(p) == Hit(PickRoot(roots(p.a, p.b, p.c)))
    IN Solve(SphereCoef(self, ray))

\* The quadratic of Cylinder::intersect.
CylinderCoef(self, ray) ==
    LET Of(adj) ==
            [a |-> FSub(One, Sq(dot(self.dir, ray.dir))),
             b |-> FSub(FMul(Two, dot(adj, ray.dir)),
                        FMul(dot(ray.dir, self.dir), dot(adj, self.dir))),
             c |-> FSub(FSub(magn2(adj), Sq(dot(adj, self.dir))), Sq(self.radius))]
    IN Of(VSub(ray.orig, self.pos))

CylinderIntersect(self, ray) ==
    LET Projection(point) ==
            VAdd(self.pos, VScale(self.dir, dot(VSub(point, self.pos), self.dir)))
        At(dist, point) ==
            Some(Intersection(dist, point, normalize(VSub(point, Projection(point)))))
        Hit(inter) ==
            IF IsSome(inter)
            THEN At(Unwrap(inter), VAdd(ray.orig, VScale(ray.dir, Unwrap(inter))))
            ELSE None
        Solve(p) == Hit(PickRoot(roots(p.a, p.b, p.c)))
    IN Solve(CylinderCoef(self, ray))

\* The quadratic of Cone::intersect.
ConeCoef(self, ray) ==
    LET Of(adj, tan2) ==
            [a |-> FSub(FSub(One, tan2), Sq(dot(ray.dir, self.dir))),
             b |-> FMul(Two, FSub(FMul(dot(adj, ray.dir), FSub(One, tan2)),
                                  FMul(dot(self.dir, ray.dir), dot(self.dir, adj)))),
             c |-> FSub(FMul(magn2(adj), FSub(One, tan2)), Sq(dot(self.dir, adj)))]
    IN Of(VSub(ray.orig, self.pos), TanSq(self.angle))

\* roots().filter(|[_, r2]| !r2.is_nan())
FilterNaN(rts) == IF IsSome(rts) /\ ~is_nan(Unwrap(rts)[2]) THEN rts ELSE None

ConeIntersect(self, ray) ==
    LET Projection(v) ==
            VAdd(self.pos, VScale(self.dir, FDiv(magn2(v), dot(self.dir, v))))
        At(dist, point) ==
            Some(Intersection(dist, point,
                              VSub(point, Projection(VSub(point, self.pos)))))
        Hit(inter) ==
            IF IsSome(inter)
            THEN At(Unwrap(inter), VAdd(ray.orig, VScale(ray.dir, Unwrap(inter))))
            ELSE None
        Solve(p) == Hit(PickRoot(FilterNaN(roots(p.a, p.b, p.c))))
    IN Solve(ConeCoef(self, ray))

\* A plane solver that returns the stored normal, whichever side is hit.
PlanStoredNormal(self, ray) ==
    LET At(d) ==
            IF FGt(d, Eps7)
            THEN Some(Intersection(d, VAdd(ray.orig, VScale(ray.dir, d)), self.norm))
            ELSE None
        Of(denom) ==
            IF FGt(FAbs(denom), Eps7)
            THEN At(FDiv(dot(VSub(self.pos, ray.orig), self.norm), FNeg(denom)))
            ELSE None
    IN Of(dot(ray.dir, VNeg(self.norm)))

\* A plane solver without the test for a parallel ray.
PlanNoParallelTest(self, ray) ==
    LET At(d, sign) ==
            IF FGt(d, Eps7)
            THEN Some(Intersection(d, VAdd(ray.orig, VScale(ray.dir, d)),
                                   VScale(self.norm, sign)))
            ELSE None
        Facing(denom, sign, p) ==
            At(FDiv(FNeg(dot(p, VScale(self.norm, sign))), FAbs(denom)), sign)
        Of(denom) == Facing(denom, signum(denom), VSub(self.pos, ray.orig))
    IN Of(dot(ray.dir, VNeg(self.norm)))

PlanIntersect(self, ray) ==
    LET At(d, sign) ==
            IF FGt(d, Eps7)
            THEN Some(Intersection(d, VAdd(ray.orig, VScale(ray.dir, d)),
                                   VScale(self.norm, sign)))
            ELSE None
        Facing(denom, sign, p) ==
            At(FDiv(FNeg(dot(p, VScale(self.norm, sign))), FAbs(denom)), sign)
        Of(denom) ==
            IF FGt(FAbs(denom), Eps7)
            THEN Facing(denom, signum(denom), VSub(self.pos, ray.orig))
            ELSE None
    IN Of(dot(ray.dir, VNeg(self.norm)))

\* Object::intersect, dispatched on the implementor.
intersect(o, ray) ==
    CASE o.type = "Sphere"   -> SphereIntersect(o, ray)
      [] o.type = "Cylinder" -> CylinderIntersect(o, ray)
      [] o.type = "Cone"     -> ConeIntersect(o, ray)
      [] o.type = "Plan"     -> PlanIntersect(o, ray)

\* The quadratic a solver hands to Polynom2::roots (Plan has none).
Coef(o, ray) ==
    CASE o.type = "Sphere"   -> SphereCoef(o, ray)
      [] o.type = "Cylinder" -> CylinderCoef(o, ray)
      [] o.type = "Cone"     -> ConeCoef(o, ray)

----------------------------------------------------------------------------
(* maths::Quaternion *)

Quat(r, i, j, k) == [r |-> r, i |-> i, j |-> j, k |-> k]

IDENTITY == Quat(One, Zero, Zero, Zero)

from_vector(v) == Quat(Zero, v.x, v.y, v.z)

\* A Hamilton product with one sign slipped, in the k part.
QMulSignSlip(p, q) ==
    Quat(FSub(FSub(FSub(FMul(p.r, q.r), FMul(p.i, q.i)), FMul(p.j, q.j)), FMul(p.k, q.k)),
         FSub(FAdd(FAdd(FMul(p.r, q.i), FMul(p.i, q.r)), FMul(p.j, q.k)), FMul(p.k, q.j)),
         FAdd(FAdd(FSub(FMul(p.r, q.j), FMul(p.i, q.k)), FMul(p.j, q.r)), FMul(p.k, q.i)),
         FAdd(FAdd(FAdd(FMul(p.r, q.k), FMul(p.i, q.j)), FMul(p.j, q.i)), FMul(p.k, q.r)))

\* Mul for Quaternion: the Hamilton product.
QMul(p, q) ==
    Quat(FSub(FSub(FSub(FMul(p.r, q.r), FMul(p.i, q.i)), FMul(p.j, q.j)), FMul(p.k, q.k)),
         FSub(FAdd(FAdd(FMul(p.r, q.i), FMul(p.i, q.r)), FMul(p.j, q.k)), FMul(p.k, q.j)),
         FAdd(FAdd(FSub(FMul(p.r, q.j), FMul(p.i, q.k)), FMul(p.j, q.r)), FMul(p.k, q.i)),
         FAdd(FSub(FAdd(FMul(p.r, q.k), FMul(p.i, q.j)), FMul(p.j, q.i)), FMul(p.k, q.r)))

QDivF(q, f) == Quat(FDiv(q.r, f), FDiv(q.i, f), FDiv(q.j, f), FDiv(q.k, f))

conjugate(q) == Quat(q.r, FNeg(q.i), FNeg(q.j), FNeg(q.k))

norm2(q) == FAdd(FAdd(FAdd(Sq(q.r), Sq(q.i)), Sq(q.j)), Sq(q.k))

norm(q) == FSqrt(norm2(q))

QNormalize(q) == QDivF(q, norm(q))

QIsNormalized(q) == FLe(FAbs(FSub(norm(q), One)), Eps6)

\* A rotation that multiplies by self again where the source multiplies by
\* self.recip().
RotateNoRecip(q, v) ==
    LET Imaginary(w) == Vec(w.i, w.j, w.k)
    IN Imaginary(QMul(QMul(q, from_vector(v)), q))

\* Quaternion::rotate_vector, the value it returns when its assertion passes.
rotate_vector(q, v) ==
    LET Imaginary(w) == Vec(w.i, w.j, w.k)
    IN Imaginary(QMul(QMul(q, from_vector(v)), conjugate(q)))

from_rotation(angle, axis) ==
    LET Of(cos, v) == QNormalize(Quat(cos, v.x, v.y, v.z))
        Split(sc) == Of(sc[2], VScale(axis, sc[1]))
    IN Split(sin_cos(HalfAngle(angle)))

from_z_rot(angle) == from_rotation(angle, VecZ)

\* f32::copysign(1.0, z)
CopySignOne(z) == Fin(SignBit(z), 1, 1)

\* Vector::any_orthonormal: the first vector of any_orthonormal_pair.
any_orthonormal(u) ==
    LET Of(sign, a) ==
            Vec(FMul(FMul(u.x, u.y), a), FAdd(sign, FMul(Sq(u.y), a)), FNeg(u.y))
        With(sign) == Of(sign, FDiv(Int2F(-1), FAdd(sign, u.z)))
    IN With(CopySignOne(u.z))

\* DOT_EPSILON = 1.0 - 2.0 * f32::EPSILON = 1 - 2^-22.
DotEpsilonDen == 4194304
DOT_EPSILON == Fin(0, DotEpsilonDen - 1, DotEpsilonDen)

from_arc(from, to) ==
    LET Around(d, c) == QNormalize(Quat(FAdd(One, d), c.x, c.y, c.z))
        Of(d) ==
            IF FGt(d, DOT_EPSILON) THEN IDENTITY
            ELSE IF FLt(d, FNeg(DOT_EPSILON))
                 THEN from_rotation(PI, any_orthonormal(from))
            ELSE Around(d, cross(from, to))
    IN Of(dot(from, to))

\* What a call that may fail a debug_assert! does: it panics, or returns.
Panic == [tag |-> "panic"]

Ok(v) == [tag |-> "Ok", value |-> v]

\* Quaternion::recip: the conjugate, behind a debug_assert! that self is a
\* unit quaternion.
recip(q) == IF debug /\ ~QIsNormalized(q) THEN Panic ELSE Ok(conjugate(q))

\* Quaternion::rotate_vector as called: its debug_assert!, then the product
\* with recip (which asserts the same).
rotate_vector_call(q, v) ==
    IF debug /\ ~QIsNormalized(q) THEN Panic ELSE Ok(rotate_vector(q, v))

\* Mul<Vector> for Quaternion and Mul<Quaternion> for Vector.
mul_quaternion_vector(q, v) == rotate_vector_call(q, v)

mul_vector_quaternion(v, q) == rotate_vector_call(q, v)

\* The quaternion Quaternion::from_arc hands to Quaternion::normalize, in
\* from_rotation or in its last branch; the identity when it hands none.
arc_operand(from, to) ==
    LET Around(d, c) == Quat(FAdd(One, d), c.x, c.y, c.z)
        Rotation(cos, v) == Quat(cos, v.x, v.y, v.z)
        Split(sc, axis) == Rotation(sc[2], VScale(axis, sc[1]))
        Of(d) ==
            IF FGt(d, DOT_EPSILON) THEN IDENTITY
            ELSE IF FLt(d, FNeg(DOT_EPSILON))
                 THEN Split(sin_cos(HalfAngle(PI)), any_orthonormal(from))
            ELSE Around(d, cross(from, to))
    IN Of(dot(from, to))

\* Quaternion::from_arc as called: its two debug_assert!, both on `from`
\* (any_orthonormal_pair asserts the same of `from` once more), then the
\* debug_assert! of Quaternion::normalize (norm2 != 0).
from_arc_call(from, to) ==
    IF debug /\ (~is_normalized(from) \/ ~is_normalized(from)) THEN Panic
    ELSE IF debug /\ FEq(norm2(arc_operand(from, to)), Zero) THEN Panic
    ELSE Ok(from_arc(from, to))

----------------------------------------------------------------------------
(* render::camera *)

\* u32 values as two 16-bit halves, so that `-1 as u32` can be written.
Half16 == 65536
AsU32(i) == [hi |-> (i \div Half16) % Half16, lo |-> i % Half16]
U32Lt(a, b) == a.hi < b.hi \/ (a.hi = b.hi /\ a.lo < b.lo)

\* An f32 has 24 bits of mantissa: the integers up to 2^24 are exact.
Mantissa24 == 16777216

\* The spacing of the f32 grid at the magnitude m.
RECURSIVE UlpOf(_, _)
UlpOf(m, u) == IF m \div u < Mantissa24 THEN u ELSE UlpOf(m, 2 * u)

\* The magnitude m rounded to the f32 grid, ties to the even mantissa.
RoundToGrid(m, u) ==
    LET Up(q, r) == 2 * r > u \/ (2 * r = u /\ q % 2 = 1)
        Of(q, r) == IF Up(q, r) THEN (q + 1) * u ELSE q * u
    IN Of(m \div u, m % u)

\* `as f32` on an integer: the nearest f32.
AsF32(i) ==
    IF i < 0 THEN Fin(1, RoundToGrid(-i, UlpOf(-i, 1)), 1)
    ELSE Fin(0, RoundToGrid(i, UlpOf(i, 1)), 1)

NewSensor(width, height) == [width |-> width, height |-> height]

Fov(axis, angle) == [axis |-> axis, angle |-> angle]

\* Sensor::distance
distance(sensor, fov) ==
    IF fov.axis = "Horizontal"
    THEN FDiv(AsF32(sensor.width \div 2), Tan(to_radians(fov.angle)))
    ELSE FDiv(AsF32(sensor.height \div 2), Tan(to_radians(fov.angle)))

\* Sensor::has_pixel on the u32 images of x and y.
has_pixel(sensor, x, y) ==
    /\ U32Lt(AsU32(x), AsU32(sensor.width))
    /\ U32Lt(AsU32(y), AsU32(sensor.height))

\* Sensor::pixel_pos_to_render_pos: None, or Some(<<x, y>>).
pixel_pos_to_render_pos(sensor, x, y) ==
    IF ~has_pixel(sensor, x, y) THEN None
    ELSE LET half_w == sensor.width \div 2
             half_h == sensor.height \div 2
         IN Some(<<AsF32(x - half_w), AsF32(-(y - half_h))>>)

\* Camera::new
NewCamera(pos, dir, sensor, fov, tilt) ==
    LET Of(ndir, ntilt) ==
            [pos |-> pos, dir |-> ndir, sensor |-> sensor, fov |-> fov, tilt |-> ntilt,
             dist |-> distance(sensor, fov),
             base_rot |-> QMul(from_arc(VecZ, ndir), from_z_rot(to_radians(ntilt)))]
    IN Of(normalize(dir), to_radians(tilt))

\* The direction Camera::get_ray hands to Ray::new for a render position.
RayDir(cam, rp) ==
    normalize(rotate_vector(cam.base_rot,
                            VAdd(Vec(rp[1], rp[2], Zero), VScale(VecZ, cam.dist))))

\* Camera::get_ray: "None", "Some" with the ray, or "panic" when a
\* debug_assert! of rotate_vector, recip or Ray::new fails in a debug build.
get_ray(cam, x, y) ==
    LET Cast(dir) ==
            IF debug /\ (~QIsNormalized(cam.base_rot) \/ ~is_normalized(dir))
            THEN [tag |-> "panic", ray |-> Ray(ORIGIN, ORIGIN)]
            ELSE [tag |-> "Some", ray |-> Ray(cam.pos, dir)]
        Of(rp) ==
            IF ~IsSome(rp) THEN [tag |-> "None", ray |-> Ray(ORIGIN, ORIGIN)]
            ELSE Cast(RayDir(cam, Unwrap(rp)))
    IN Of(pixel_pos_to_render_pos(cam.sensor, x, y))

----------------------------------------------------------------------------
(* colors::Rgba and render::shader *)

Rgba(r, g, b, a) == <<r, g, b, a>>

from_rgb(r, g, b) == Rgba(r, g, b, 255)

BLACK == from_rgb(0, 0, 0)
WHITE == from_rgb(255, 255, 255)
BLUE == from_rgb(0, 0, 255)

Fast == [type |-> "Fast", factor |-> Zero]

GammaEncoder(factor) == [type |-> "GammaEncoder", factor |-> factor]

\* GammaEncoder::default: factor 2.2
DefaultGamma == GammaEncoder(Q(22, 10))

\* shader::Fast::compute_color
FastColor(ray, intersection, color) ==
    LET Lit(intensity) ==
            from_rgb(AsU8(FMul(Int2F(color[1]), intensity)),
                     AsU8(FMul(Int2F(color[2]), intensity)),
                     AsU8(FMul(Int2F(color[3]), intensity)))
    IN Lit(dot(ray.dir, VNeg(intersection.normal)))

\* ((c as f32 / 255.).powf(2.2f32.recip()) * 255.) as u8 for c = 0..255,
\* evaluated in f32.
Gamma22 ==
    <<
       0, 20, 28, 33, 38, 42, 46, 49, 52, 55, 58, 61, 63, 65, 68, 70,
       72, 74, 76, 78, 80, 81, 83, 85, 87, 88, 90, 91, 93, 94, 96, 97,
       99, 100, 102, 103, 104, 106, 107, 108, 109, 111, 112, 113, 114, 115, 117, 118,
       119, 120, 121, 122, 123, 124, 125, 126, 128, 129, 130, 131, 132, 133, 134, 135,
       136, 136, 137, 138, 139, 140, 141, 142, 143, 144, 145, 146, 147, 147, 148, 149,
       150, 151, 152, 153, 153, 154, 155, 156, 157, 158, 158, 159, 160, 161, 162, 162,
       163, 164, 165, 165, 166, 167, 168, 168, 169, 170, 171, 171, 172, 173, 174, 174,
       175, 176, 176, 177, 178, 178, 179, 180, 181, 181, 182, 183, 183, 184, 185, 185,
       186, 187, 187, 188, 189, 189, 190, 190, 191, 192, 192, 193, 194, 194, 195, 196,
       196, 197, 197, 198, 199, 199, 200, 200, 201, 202, 202, 203, 203, 204, 205, 205,
       206, 206, 207, 208, 208, 209, 209, 210, 210, 211, 212, 212, 213, 213, 214, 214,
       215, 216, 216, 217, 217, 218, 218, 219, 219, 220, 220, 221, 222, 222, 223, 223,
       224, 224, 225, 225, 226, 226, 227, 227, 228, 228, 229, 229, 230, 230, 231, 231,
       232, 232, 233, 233, 234, 234, 235, 235, 236, 236, 237, 237, 238, 238, 239, 239,
       240, 240, 241, 241, 242, 242, 243, 243, 244, 244, 245, 245, 246, 246, 247, 247,
       248, 248, 249, 249, 249, 250, 250, 251, 251, 252, 252, 253, 253, 254, 254, 255
    >>

\* A rounding toward zero, which drops what is left of the unit.
RoundDown(m, rem, unit) == m

\* Round to nearest, ties to even: m units and rem / unit of one more.
RoundEven(m, rem, unit) ==
    IF 2 * rem > unit \/ (2 * rem = unit /\ m % 2 = 1) THEN m + 1 ELSE m

\* The f32 quotient c / 255. as <<m, e>>, the value m * 2^-e with a 24-bit
\* m: binary long division, q the bits so far and r the remainder.
RECURSIVE DivBits(_, _, _)
DivBits(q, r, e) ==
    IF q >= Mantissa24 \div 2 THEN <<RoundEven(q, r, 255), e>>
    ELSE IF 2 * r >= 255 THEN DivBits(2 * q + 1, 2 * r - 255, e + 1)
    ELSE DivBits(2 * q, 2 * r, e + 1)

\* The f32 product (m * 2^-e) * 255., rounded to 24 bits: 255 m is
\* 256 a + b, split so that no product passes 32 bits.
Times255(m, e) ==
    LET Rounded(a, b) ==
            IF a >= Mantissa24 \div 2
            THEN Fin(0, RoundEven(a, b, 256), 2 ^ (e - 8))
            ELSE Fin(0, RoundEven(2 * a + b \div 128, b % 128, 128), 2 ^ (e - 7))
        Split(h, l) == Rounded(255 * h + (255 * l) \div 256, (255 * l) % 256)
    IN Split(m \div 256, m % 256)

\* ((c as f32 / 255.).powf(1.0) * 255.) as u8: powf(x, 1.0) is x.
Gamma1(c) ==
    LET Scaled(me) == AsU8(Times255(me[1], me[2]))
    IN IF c = 0 THEN 0 ELSE Scaled(DivBits(c \div 255, c % 255, 0))

\* One channel of GammaEncoder::encode.
EncodeChannel(factor, c) ==
    CASE factor = Q(22, 10) -> Gamma22[c + 1]
      [] factor = One       -> Gamma1(c)

\* shader::GammaEncoder::encode
encode(self, color) ==
    Rgba(EncodeChannel(self.factor, color[1]), EncodeChannel(self.factor, color[2]),
         EncodeChannel(self.factor, color[3]), color[4])

\* Shader::compute_color, dispatched on the stage.
compute_color(s, ray, object, intersection, color) ==
    IF s.type = "Fast" THEN FastColor(ray, intersection, color) ELSE encode(s, color)

----------------------------------------------------------------------------
(* render::Renderer *)

\* Renderer::new
NewRenderer(background) ==
    [background |-> background, shaders |-> <<Fast, DefaultGamma>>]

\* scene.objects.iter().filter_map(|o| o.intersect(ray).zip(Some(o))):
\* the hits in object order, each with the index of its object.
RECURSIVE Inters(_, _, _)
Inters(objects, ray, k) ==
    IF k > Len(objects) THEN <<>>
    ELSE LET Zip(i) == IF IsSome(i) THEN <<[i |-> Unwrap(i), o |-> k]>> ELSE <<>>
         IN Zip(intersect(objects[k], ray)) \o Inters(objects, ray, k + 1)

\* A selection that ignores the distances and keeps the last hit.
LastHit(inters, best, k) == Len(inters)

\* A selection that replaces its candidate by every hit that is not farther:
\* of equal distances it keeps the last.
RECURSIVE MinByKeepsLast(_, _, _)
MinByKeepsLast(inters, best, k) ==
    IF k > Len(inters) THEN best
    ELSE IF best = 0 THEN MinByKeepsLast(inters, k, k + 1)
    ELSE IF total_cmp(inters[best].i.dist, inters[k].i.dist) >= 0
         THEN MinByKeepsLast(inters, k, k + 1)
         ELSE MinByKeepsLast(inters, best, k + 1)

\* Iterator::min_by with |(i, _), (i2, _)| i.dist.total_cmp(&i2.dist): the
\* position in `inters` of the minimum, 0 for an empty iterator.  The fold
\* keeps its accumulator unless it compares Greater than the next element.
RECURSIVE MinBy(_, _, _)
MinBy(inters, best, k) ==
    IF k > Len(inters) THEN best
    ELSE IF best = 0 THEN MinBy(inters, k, k + 1)
    ELSE IF total_cmp(inters[best].i.dist, inters[k].i.dist) > 0
         THEN MinBy(inters, k, k + 1)
         ELSE MinBy(inters, best, k + 1)

\* A fold that forgets its accumulator: every stage is handed the seed.
RECURSIVE FoldSeedOnly(_, _, _, _, _, _)
FoldSeedOnly(shaders, ray, o, inter, col, k) ==
    IF k > Len(shaders) THEN <<>>
    ELSE <<[stage |-> shaders[k], ray |-> ray, object |-> o,
            intersection |-> inter, input |-> col,
            output |-> compute_color(shaders[k], ray, o, inter, col)]>>
         \o FoldSeedOnly(shaders, ray, o, inter, col, k + 1)

\* self.shaders.iter().fold(Rgba::WHITE, ...): the calls made, in order, each
\* with the colour it was given and the colour it returned.
RECURSIVE Fold(_, _, _, _, _, _)
Fold(shaders, ray, o, inter, col, k) ==
    IF k > Len(shaders) THEN <<>>
    ELSE LET Step(out) ==
                 <<[stage |-> shaders[k], ray |-> ray, object |-> o,
                    intersection |-> inter, input |-> col, output |-> out]>>
                 \o Fold(shaders, ray, o, inter, out, k + 1)
         IN Step(compute_color(shaders[k], ray, o, inter, col))

NoRay == Ray(ORIGIN, ORIGIN)

\* Renderer::render_pixel: what the call did and returned.
render_pixel(self, x, y, cam, scn) ==
    LET Coloured(ray, inters, closest, calls) ==
            [x |-> x, y |-> y, outcome |-> "returned", ray |-> "Some", rayv |-> ray,
             inters |-> inters, closest |-> closest, calls |-> calls,
             color |-> IF closest = 0 THEN self.background
                       ELSE IF calls = <<>> THEN WHITE
                       ELSE calls[Len(calls)].output]
        Closest(ray, inters, closest) ==
            Coloured(ray, inters, closest,
                   IF closest = 0 THEN <<>>
                   ELSE Fold(self.shaders, ray, inters[closest].o,
                             inters[closest].i, WHITE, 1))
        Hits(ray, inters) == Closest(ray, inters, MinBy(inters, 0, 1))
        Of(r) ==
            IF r.tag = "None"
            THEN [x |-> x, y |-> y, outcome |-> "returned", ray |-> "None",
                  rayv |-> NoRay, inters |-> <<>>, closest |-> 0, calls |-> <<>>,
                  color |-> self.background]
            ELSE IF r.tag = "panic"
            THEN [x |-> x, y |-> y, outcome |-> "panic", ray |-> "panic",
                  rayv |-> NoRay, inters |-> <<>>, closest |-> 0, calls |-> <<>>,
                  color |-> BLACK]
            ELSE Hits(r.ray, Inters(scn.objects, r.ray, 1))
    IN Of(get_ray(cam, x, y))

\* Scene::new
NewScene(objects, lights, ambiant) ==
    [objects |-> objects, lights |-> lights, ambiant |-> ambiant]

----------------------------------------------------------------------------
(* scene::SceneBuilder *)

\* lights::Directional, a light without fields.
Directional == [type |-> "Directional"]

\* f32::clamp(self, min, max)
clamp(x, min, max) == IF FLt(x, min) THEN min ELSE IF FGt(x, max) THEN max ELSE x

\* SceneBuilder::new
NewSceneBuilder == [objects |-> <<>>, lights |-> <<>>, ambiant |-> None]

with_ambiant(self, ambiant) == [self EXCEPT !.ambiant = Some(clamp(ambiant, Zero, One))]

\* A with_object that puts the object in front of the others.
WithObjectInFront(self, obj) == [self EXCEPT !.objects = <<obj>> \o @]

with_object(self, obj) == [self EXCEPT !.objects = Append(@, obj)]

with_light(self, obj) == [self EXCEPT !.lights = Append(@, obj)]

\* Option::unwrap_or
unwrap_or(opt, default) == IF IsSome(opt) THEN Unwrap(opt) ELSE default

\* SceneBuilder::build: the scene it returns; self is borrowed, not changed.
build(self) == NewScene(self.objects, self.lights, unwrap_or(self.ambiant, Q(3, 10)))

----------------------------------------------------------------------------
(* The library crate of lib.rs: math::Polynomial2, shapes::Sphere, lights,  *)
(* primitives::Quaternion, renderer and image.  A u32 colour is the tuple   *)
(* of its four big-endian bytes.                                            *)

\* Polynomial2::root: r1 and r2 are both (-b - sqrt(delta)) / (2a), and a
\* zero delta gives -b / 2 * a.
root(a, b, c) ==
    LET Ordered(r1, r2) == IF FGt(r1, r2) THEN Some(<<r2, r1>>) ELSE Some(<<r1, r2>>)
        Both(sq) ==
            Ordered(FDiv(FSub(FNeg(b), sq), FMul(Two, a)),
                    FDiv(FSub(FNeg(b), sq), FMul(Two, a)))
        Twice(r) == Some(<<r, r>>)
        Of(delta) ==
            IF FLt(delta, Zero) THEN None
            ELSE IF FEq(delta, Zero) THEN Twice(FMul(FDiv(FNeg(b), Two), a))
            ELSE Both(FSqrt(delta))
    IN Of(FSub(FMul(b, b), FMul(FMul(Four, a), c)))

\* materials::Material: the two amounts trace_ray reads.
Material(reflection_amount, refraction_amount) ==
    [reflection_amount |-> reflection_amount, refraction_amount |-> refraction_amount]

\* Material::default
DefaultMaterial == Material(Zero, Zero)

\* shapes::Sphere, a struct of public fields.
Shape(position, radius, material) ==
    [position |-> position, radius |-> radius, material |-> material]

\* shapes::Sphere::new
NewShape(position, radius) == Shape(position, radius, DefaultMaterial)

\* x.into_iter().find(|arr| arr.is_sign_positive())
FindPositive(pair) ==
    IF is_sign_positive(pair[1]) THEN Some(pair[1])
    ELSE IF is_sign_positive(pair[2]) THEN Some(pair[2])
    ELSE None

\* The quadratic of shapes::Sphere::intersect.
ShapeCoef(self, ray) ==
    LET Of(adj) ==
            [a |-> FAdd(FAdd(Sq(ray.dir.x), Sq(ray.dir.y)), Sq(ray.dir.z)),
             b |-> FMul(Two, FAdd(FAdd(FMul(adj.x, ray.dir.x), FMul(adj.y, ray.dir.y)),
                                  FMul(adj.z, ray.dir.z))),
             c |-> FSub(FAdd(FAdd(Sq(adj.x), Sq(adj.y)), Sq(adj.z)), Sq(self.radius))]
    IN Of(VSub(ray.orig, self.position))

\* Shape for Sphere: intersect.  The Intersection of lib.rs has the fields
\* distance, position, normal.
ShapeIntersect(self, ray) ==
    LET Hit(position, dist) ==
            Some([distance |-> dist, position |-> position,
                  normal |-> VSub(position, self.position)])
        At(found) ==
            IF IsSome(found)
            THEN Hit(VAdd(ray.orig, VScale(ray.dir, Unwrap(found))), Unwrap(found))
            ELSE None
        Roots(r) == IF IsSome(r) THEN At(FindPositive(Unwrap(r))) ELSE None
        Of(poly) == Roots(root(poly.a, poly.b, poly.c))
    IN Of(ShapeCoef(self, ray))

\* lights::DotLight, a struct of public fields.
DotLight(pos, intensity, color) == [pos |-> pos, intensity |-> intensity, color |-> color]

\* DotLight::get_ray
light_get_ray(self, point) ==
    [ray |-> Ray(point, VSub(self.pos, point)), intensity |-> self.intensity,
     color |-> self.color]

\* primitives::Quaternion::new_rotation: cos and sin of the half angle, the
\* axis taken as it is.
new_rotation(angle, axis) ==
    LET Of(sc) == Quat(sc[2], FMul(axis.x, sc[1]), FMul(axis.y, sc[1]), FMul(axis.z, sc[1]))
    IN Of(sin_cos(HalfAngle(angle)))

\* primitives::Quaternion::inv: self / self.norm_sqr().
inv(q) == QDivF(q, norm2(q))

\* TryFrom<Quaternion> for Vector followed by unwrap(): a real part that is
\* not 0 (NaN included) is an Err, and unwrap panics.
try_into_unwrap(q) ==
    IF ~FEq(q.r, Zero) THEN Panic ELSE Ok(Vec(q.i, q.j, q.k))

\* primitives::Quaternion::rotate_vector
primitives_rotate_vector(q, vector) ==
    try_into_unwrap(QMul(QMul(q, from_vector(vector)), inv(q)))

\* renderer.rs reflect_ray
reflect_ray(ray, inter) ==
    LET Of(dir) ==
            IF dir.tag = "panic" THEN Panic ELSE Ok(Ray(inter.position, dir.value))
    IN Of(primitives_rotate_vector(
              new_rotation(to_radians(Degrees(90)), cross(ray.dir, inter.normal)),
              ray.dir))

\* The hits of find_closest_shape before min_by, each with the index of its
\* shape.
RECURSIVE ShapeHits(_, _, _)
ShapeHits(objects, ray, k) ==
    IF k > Len(objects) THEN <<>>
    ELSE LET Zip(i) == IF IsSome(i) THEN <<[inter |-> Unwrap(i), shape |-> k]>> ELSE <<>>
         IN Zip(ShapeIntersect(objects[k], ray)) \o ShapeHits(objects, ray, k + 1)

\* min_by(|(_, inter1), (_, inter2)| inter1.distance.total_cmp(&inter2.distance)):
\* the position of the minimum, 0 for no hit.
RECURSIVE MinByDistance(_, _, _)
MinByDistance(hits, best, k) ==
    IF k > Len(hits) THEN best
    ELSE IF best = 0 THEN MinByDistance(hits, k, k + 1)
    ELSE IF total_cmp(hits[best].inter.distance, hits[k].inter.distance) > 0
         THEN MinByDistance(hits, k, k + 1)
         ELSE MinByDistance(hits, best, k + 1)

\* Scene::find_closest_shape: None, or Some of the hit and its shape.
find_closest_shape(self, ray) ==
    LET Pick(hits, best) == IF best = 0 THEN None ELSE Some(hits[best])
        Of(hits) == Pick(hits, MinByDistance(hits, 0, 1))
    IN Of(ShapeHits(self.objects, ray, 1))

\* renderer.rs is_illuminated: no shape is hit at a distance in (0, 1).
is_illuminated(lray, objects) ==
    \A k \in 1..Len(objects) :
        LET Between(i) ==
                IsSome(i) /\ FGt(Unwrap(i).distance, Zero) /\ FLt(Unwrap(i).distance, One)
        IN ~Between(ShapeIntersect(objects[k], lray.ray))

\* Scene::find_light_rays: the light rays kept, each with its dot product.
RECURSIVE find_light_rays(_, _, _)
find_light_rays(self, inter, k) ==
    IF k > Len(self.lights) THEN <<>>
    ELSE LET Facing(r, d) == IF is_sign_positive(d) THEN <<[lray |-> r, dot |-> d]>> ELSE <<>>
             Lit(r) ==
                 IF is_illuminated(r, self.objects)
                 THEN Facing(r, dot(normalize(inter.normal), normalize(r.ray.dir)))
                 ELSE <<>>
         IN Lit(light_get_ray(self.lights[k], inter.position))
                \o find_light_rays(self, inter, k + 1)

\* light_intensity's compute_luminosity: dot * intensity * col[idx] / 255.
compute_luminosity(ray, d) ==
    LET Lum(t) ==
            << One,
               FDiv(FMul(t, Int2F(ray.color[2])), Int2F(255)),
               FDiv(FMul(t, Int2F(ray.color[3])), Int2F(255)),
               FDiv(FMul(t, Int2F(ray.color[4])), Int2F(255)) >>
    IN Lum(FMul(d, ray.intensity))

\* The reduce of light_intensity: the sum of the luminosities from ray k on.
RECURSIVE SumLuminosity(_, _, _)
SumLuminosity(rays, acc, k) ==
    IF k > Len(rays) THEN acc
    ELSE LET Add(e) == [i \in 1..4 |-> FAdd(acc[i], e[i])]
         IN SumLuminosity(rays, Add(compute_luminosity(rays[k].lray, rays[k].dot)), k + 1)

\* renderer.rs light_intensity
light_intensity(rays) ==
    LET Clamped(sum) == [i \in 1..4 |-> clamp(sum[i], Zero, One)]
    IN IF rays = <<>> THEN Clamped(<<Zero, Zero, Zero, Zero>>)
       ELSE Clamped(SumLuminosity(rays, compute_luminosity(rays[1].lray, rays[1].dot), 2))

\* renderer.rs apply_light, on the colour 0xffffff trace_ray hands it.
apply_light(rays, color) ==
    LET Of(intensity) == [i \in 1..4 |-> AsU8(FMul(Int2F(color[i]), intensity[i]))]
    IN Of(light_intensity(rays))

\* renderer::Scene, a struct of public fields.
LegacyScene(objects, lights, background_color) ==
    [objects |-> objects, lights |-> lights, background_color |-> background_color]

\* Scene::trace_ray: the colour returned or the panic, and the number of
\* nested trace_ray calls below this one.  The colour of the reflected ray
\* is bound to refl_color and not read.
RECURSIVE trace_ray(_, _, _)
trace_ray(self, ray, max_recursion) ==
    LET Colour(rays, levels) ==
            [tag |-> "Ok", levels |-> levels,
             color |-> IF rays # <<>> THEN apply_light(rays, <<0, 255, 255, 255>>)
                       ELSE self.background_color]
        After(rays, nested) ==
            IF nested.tag = "panic" THEN nested ELSE Colour(rays, nested.levels + 1)
        Reflected(rays, r) ==
            IF r.tag = "panic" THEN [tag |-> "panic", levels |-> 0]
            ELSE After(rays, trace_ray(self, r.value, max_recursion - 1))
        Traced(hit, rays, mat) ==
            IF max_recursion > 0 /\ FGt(mat.reflection_amount, Zero)
                                /\ FLt(mat.refraction_amount, One)
            THEN Reflected(rays, reflect_ray(ray, hit.inter))
            ELSE Colour(rays, 0)
        Found(closest) ==
            IF IsSome(closest)
            THEN Traced(Unwrap(closest), find_light_rays(self, Unwrap(closest).inter, 1),
                        self.objects[Unwrap(closest).shape].material)
            ELSE [tag |-> "Ok", levels |-> 0, color |-> self.background_color]
    IN Found(find_closest_shape(self, ray))

----------------------------------------------------------------------------
(* image.rs, camera.rs and the Renderer of renderer.rs.  A u32 is two       *)
(* 16-bit halves and a flag telling that the arithmetic that made it went   *)
(* past 2^32; a colour is the four bytes of u32::to_be_bytes.               *)

U32(i) == [hi |-> i \div Half16, lo |-> i % Half16, wrapped |-> FALSE]

\* u32 addition, modulo 2^32.
wrapping_add(a, b) ==
    LET Of(lo, hi) ==
            [hi |-> hi % Half16, lo |-> lo % Half16,
             wrapped |-> a.wrapped \/ b.wrapped \/ hi >= Half16]
    IN Of(a.lo + b.lo, a.hi + b.hi + (a.lo + b.lo) \div Half16)

\* The product of two 16-bit halves, as two halves.
Mul16(p, q) ==
    LET Sum(top, low) == [hi |-> top + (low \div Half16), lo |-> low % Half16]
        Of(t, u) == Sum((t \div 256) + (u \div Half16), ((t % 256) * 256) + (u % Half16))
    IN Of((p \div 256) * q, (p % 256) * q)

\* u32 multiplication, modulo 2^32.
wrapping_mul(a, b) ==
    LET Of(ll, hl, lh) ==
            [hi |-> (ll.hi + hl.lo + lh.lo) % Half16, lo |-> ll.lo,
             wrapped |-> \/ a.wrapped \/ b.wrapped
                         \/ ll.hi + hl.lo + lh.lo >= Half16
                         \/ hl.hi > 0 \/ lh.hi > 0
                         \/ (a.hi > 0 /\ b.hi > 0)]
    IN Of(Mul16(a.lo, b.lo), Mul16(a.hi, b.lo), Mul16(a.lo, b.hi))

\* `as usize` of a u32 below 2^31.
AsUsize(u) == u.hi * Half16 + u.lo

\* The index of draw_pixel: x * 4 * self.y + 4 * y
draw_index(self, x, y) ==
    wrapping_add(wrapping_mul(wrapping_mul(U32(x), U32(4)), U32(self.y)),
                 wrapping_mul(U32(4), U32(y)))

\* Image::draw_pixel: the image after the call, or the panic of an
\* arithmetic overflow in a debug build or of an index outside the buffer
\* (the buffers of the model are shorter than 2^16 bytes).
draw_pixel(self, x, y, color) ==
    LET Stored(index) ==
            [self EXCEPT !.data =
                [i \in 1..Len(self.data) |->
                    CASE i = index + 1 -> color[2]
                      [] i = index + 2 -> color[3]
                      [] i = index + 3 -> color[4]
                      [] i = index + 4 -> 255
                      [] OTHER         -> self.data[i]]]
        At(idx) ==
            IF debug /\ idx.wrapped THEN Panic
            ELSE IF idx.hi > 0 \/ idx.lo + 4 > Len(self.data) THEN Panic
            ELSE Ok(Stored(AsUsize(idx)))
    IN At(draw_index(self, x, y))

\* The loops of Image::new over a in 0..x and b in 0..y, from (a, b) on.
RECURSIVE Fill(_, _, _, _)
Fill(ret, a, b, col) ==
    IF a >= ret.x THEN ret
    ELSE IF b >= ret.y THEN Fill(ret, a + 1, 0, col)
    ELSE Fill(draw_pixel(ret, a, b, col).value, a, b + 1, col)

\* Image::new
NewImage(x, y, color) ==
    LET Sized(len) == [x |-> x, y |-> y, data |-> [i \in 1..len |-> 0]]
        Of(ret) == IF IsSome(color) THEN Fill(ret, 0, 0, Unwrap(color)) ELSE ret
    IN Of(Sized(AsUsize(wrapping_mul(wrapping_mul(U32(4), U32(x)), U32(y)))))

\* Image::get_dimension
get_dimension(self) == [x |-> self.x, y |-> self.y]

\* camera.rs Camera, a struct of public fields and a private rotation.
LegacyCamera(position, direction, fov, dist, rotation) ==
    [position |-> position, direction |-> direction, fov |-> fov,
     distance |-> dist, rotation |-> rotation]

\* Camera::default
DefaultCamera == LegacyCamera(ORIGIN, VecZ, Degrees(80), Int2F(100), IDENTITY)

\* Camera::compute_angle: (fov.to_radians() / max_dist) * (pos - max_dist / 2),
\* on the inputs where it is a whole number of degrees.
compute_angle(fov, max_dist, pos) ==
    [deg |-> (fov.deg * (2 * pos - max_dist)) \div (2 * max_dist), conv |-> fov.conv + 1]

\* camera.rs Camera::get_ray: the ray, or the panic of rotate_vector.
camera_get_ray(self, dimension, x, y) ==
    LET Of(dir) == IF dir.tag = "panic" THEN Panic ELSE Ok(Ray(self.position, dir.value))
        Towards(yangle, xangle) ==
            Of(primitives_rotate_vector(
                   self.rotation,
                   Vec(FMul(self.distance, Tan(xangle)),
                       FMul(self.distance, Tan(yangle)), self.distance)))
    IN Towards(compute_angle(self.fov, dimension.x, x),
               compute_angle(self.fov, dimension.y, y))

\* Scene::default
DefaultScene == LegacyScene(<<>>, <<>>, <<0, 0, 0, 0>>)

\* renderer.rs Renderer::new
LegacyRenderer(image_x, image_y, cam) ==
    [image |-> NewImage(image_x, image_y, None),
     camera |-> IF IsSome(cam) THEN Unwrap(cam) ELSE DefaultCamera,
     scene |-> DefaultScene, recursion_max |-> 0]

\* renderer.rs Renderer::render_pixel: the renderer after the call and the
\* colour drawn, or the panic of get_ray, trace_ray or draw_pixel.
legacy_render_pixel(self, x, y) ==
    LET Drawn(image, color) ==
            IF image.tag = "panic" THEN Panic
            ELSE Ok([renderer |-> [self EXCEPT !.image = image.value], color |-> color])
        Coloured(traced) ==
            IF traced.tag = "panic" THEN Panic
            ELSE Drawn(draw_pixel(self.image, x, y, traced.color), traced.color)
        Of(ray) ==
            IF ray.tag = "panic" THEN Panic
            ELSE Coloured(trace_ray(self.scene, ray.value, self.recursion_max))
    IN Of(camera_get_ray(self.camera, get_dimension(self.image), x, y))

\* Renderer::render, from the pixel (x, y) of its loops on: the renderer
\* when the loops end or a call panics, and the pixels drawn, in order.
RECURSIVE render_from(_, _, _, _)
render_from(self, x, y, drawn) ==
    LET Next(after) ==
            IF after.tag = "panic"
            THEN [tag |-> "panic", renderer |-> self, drawn |-> drawn]
            ELSE render_from(after.value.renderer, x, y + 1,
                             Append(drawn, [x |-> x, y |-> y, color |-> after.value.color]))
    IN IF x >= self.image.x THEN [tag |-> "Ok", renderer |-> self, drawn |-> drawn]
       ELSE IF y >= self.image.y THEN render_from(self, x + 1, 0, drawn)
       ELSE Next(legacy_render_pixel(self, x, y))

\* Renderer::render
render(self) == render_from(self, 0, 0, <<>>)

----------------------------------------------------------------------------
(* Inputs.  Every ray direction, axis and radius below keeps the square     *)
(* roots of the source rational: the directions are unit vectors with       *)
(* rational coordinates, and the field of view is atan(4/3).                *)

\* Largest pixel coordinate asked for; sensors are at most 2 wide or high.
MaxPix == 2

\* Largest number of objects in a scene.
MaxObjects == 2

\* Sensors of one row or one column.
Sensors == {NewSensor(1, 1), NewSensor(2, 1), NewSensor(1, 2)}

Fovs == {Fov("Horizontal", Degrees(53)), Fov("Vertical", Degrees(53))}

\* The arguments of an object's constructor.
Args(type, pos, dir, radius, angle) ==
    [type |-> type, pos |-> pos, dir |-> dir, radius |-> radius, angle |-> angle]

SphereArgs(pos, radius) == Args("Sphere", pos, ORIGIN, radius, Degrees(0))

CylinderArgs(pos, dir, radius) == Args("Cylinder", pos, dir, radius, Degrees(0))

ConeArgs(pos, dir, angle) == Args("Cone", pos, dir, Zero, angle)

PlanArgs(pos, normal) == Args("Plan", pos, normal, Zero, Degrees(0))

\* The constructor call on its arguments.
Construct(args) ==
    CASE args.type = "Sphere"   -> NewSphere(args.pos, args.radius)
      [] args.type = "Cylinder" -> NewCylinder(args.pos, args.dir, args.radius)
      [] args.type = "Cone"     -> NewCone(args.pos, args.dir, args.angle)
      [] args.type = "Plan"     -> NewPlan(args.pos, args.dir)

\* Objects in front of, around and behind a camera at the origin looking
\* down +Z.
SceneObjects ==
    {SphereArgs(VQ(0, 0, 100, 1), Int2F(50)),
     SphereArgs(VQ(0, 0, 200, 1), Int2F(50)),
     SphereArgs(VQ(30, 0, -40, 1), Int2F(30)),
     PlanArgs(VQ(0, 0, 50, 1), VQ(0, 0, 1, 1)),
     CylinderArgs(VQ(0, 0, 50, 1), VQ(0, 1, 0, 1), Int2F(10))}

RECURSIVE SeqsUpTo(_, _)
SeqsUpTo(S, n) ==
    IF n = 0 THEN {<<>>}
    ELSE LET shorter == SeqsUpTo(S, n - 1)
         IN shorter \cup {Append(q, e) : q \in shorter, e \in S}

\* Two opaque colours and a half-transparent one.
Backgrounds == {BLACK, BLUE, Rgba(0, 255, 0, 128)}

\* Unit directions with rational coordinates.
Directions ==
    {VQ(0, 0, 1, 1), VQ(3, 0, 4, 5), VQ(0, 3, 4, 5), VQ(-4, 0, 3, 5),
     VQ(1, 0, 0, 1), VQ(0, 1, 0, 1)}

ProbeRays == {Ray(ORIGIN, d) : d \in Directions}

\* Rays that start off every axis.
OffAxisRays == {Ray(VQ(1, 2, 3, 1), d) : d \in Directions}

\* A sphere of radius 1e-4, one unit ahead of the origin on +Z.
TinySphere == SphereArgs(VQ(0, 0, 1, 1), Q(1, 10000))

ProbeSpheres ==
    {SphereArgs(VQ(0, 0, 10, 1), Int2F(3)),     \* ahead of the origin on +Z
     SphereArgs(VQ(0, 0, -10, 1), Int2F(3)),    \* behind it
     SphereArgs(VQ(0, 0, 0, 1), Int2F(5)),      \* around it
     SphereArgs(VQ(0, 0, 5, 1), Int2F(5)),      \* the origin is on the surface
     SphereArgs(VQ(5, 0, 10, 1), Int2F(5)),     \* +Z is tangent, ahead
     SphereArgs(VQ(3, 0, -4, 1), Int2F(3)),     \* +Z is tangent, behind
     SphereArgs(VQ(0, 0, 100, 1), Int2F(50)),   \* the sphere of main.rs's scale
     TinySphere}

ProbeCylinders ==
    {CylinderArgs(VQ(0, 0, 10, 1), VQ(0, 1, 0, 1), Int2F(2)),
     CylinderArgs(VQ(-10, 0, 10, 1), VQ(3, 0, 4, 1), Int2F(1)),
     CylinderArgs(VQ(0, 0, 0, 1), VQ(0, 0, 1, 1), Int2F(2)),
     CylinderArgs(VQ(0, 0, 5, 1), VQ(0, 0, 1, 1), Int2F(2))}

ProbeCones ==
    {ConeArgs(VQ(-5, -5, -5, 1), VQ(0, 0, 1, 1), Degrees(30)),
     ConeArgs(VQ(0, 0, 60, 1), VQ(0, 1, 0, 1), Degrees(45)),
     ConeArgs(VQ(0, 0, 10, 1), VQ(0, 0, 1, 1), Degrees(60))}

\* Planes whose normal is +Z or -Z.
FlatPlans ==
    {PlanArgs(VQ(0, 0, 50, 1), VQ(0, 0, 1, 1)),
     PlanArgs(VQ(0, 0, -50, 1), VQ(0, 0, 1, 1)),
     PlanArgs(VQ(0, 0, 50, 1), VQ(0, 0, -1, 1)),
     PlanArgs(VQ(0, 0, 0, 1), VQ(0, 0, 1, 1))}

ProbePlans == FlatPlans \cup {PlanArgs(VQ(1, 2, 3, 1), VQ(3, 0, 4, 1))}

\* Rays along +X that leave the XY plane by 5e-8 per unit, up or down:
\* within the 1e-7 of Plan::intersect of being parallel to the flat planes.
GrazingRays ==
    {Ray(ORIGIN, Vec(One, Zero, Q(1, 20000000))),
     Ray(ORIGIN, Vec(One, Zero, Q(-1, 20000000)))}

ProbeObjects == ProbeSpheres \cup ProbeCylinders \cup ProbeCones \cup ProbePlans

\* A call of Object::intersect that is still to be made.
SolverInputs ==
    {[op |-> "intersect", ray |-> r, args |-> o, object |-> o, result |-> None] :
        r \in ProbeRays, o \in ProbeObjects}
    \cup
    {[op |-> "intersect", ray |-> r, args |-> o, object |-> o, result |-> None] :
        r \in OffAxisRays, o \in ProbeObjects \ {TinySphere}}
    \cup
    {[op |-> "intersect", ray |-> r, args |-> o, object |-> o, result |-> None] :
        r \in GrazingRays, o \in FlatPlans}

\* Coefficients of the polynomials handed to Polynom2::roots.
PolyA == {Int2F(-2), Int2F(-1), Zero, One, Two}
PolyB == {Int2F(-4), Int2F(-2), Zero, One, Int2F(3), Int2F(4)}
PolyC == {Int2F(-2), Zero, One, Two}

Poly(a, b, c) == [op |-> "roots", a |-> a, b |-> b, c |-> c, result |-> None]

\* x^2 + x + 0.24999999 has a discriminant of 4e-8, inside the tangent
\* threshold of 1e-7.
NearTangent == Poly(One, One, Q(24999999, 100000000))

PolyInputs == {Poly(a, b, c) : a \in PolyA, b \in PolyB, c \in PolyC} \cup {NearTangent}

\* Sensor sides: small ones, the default 512, and 2^25 and 2^25 + 2, where
\* the centred coordinates reach past the exact integers of f32.
SensorSides == {1, 2, 3, 512, 2 * Mantissa24, 2 * Mantissa24 + 2}

ProbeSensors == {NewSensor(w, h) : w \in SensorSides, h \in SensorSides}

\* Pixel coordinates at and around the corners and centres of the sensors.
PixelCoords ==
    {-1, 0, 1, 2, 3, 255, 256, 511, 512,
     2 * Mantissa24 - 1, 2 * Mantissa24, 2 * Mantissa24 + 1}

\* Where the cameras of CameraSpec stand.
CameraPositions == {ORIGIN, VQ(1, 2, 3, 1)}

\* Where they look, as handed to Camera::new: along +Z (not normalized),
\* along -Z, and along two directions a rational rotation away from +Z.
CameraDirs == {VQ(0, 0, 2, 1), VQ(0, 0, -1, 1), VQ(24, 0, 7, 1), VQ(0, 24, -7, 1)}

\* The small sensors and the default one.
CameraSensors == Sensors \cup {NewSensor(512, 512)}

\* The tilt handed to Camera::new, in degrees.
CameraTilts == {Degrees(0), Degrees(180)}

\* The direction, sensor and tilt of a camera: every direction and sensor
\* without tilt, and the default sensor along the Z axis with each tilt.
CameraSetups ==
    {<<dir, sn, Degrees(0)>> : dir \in CameraDirs, sn \in CameraSensors}
        \cup {<<dir, NewSensor(512, 512), t>> :
                  dir \in {VQ(0, 0, 2, 1), VQ(0, 0, -1, 1)}, t \in CameraTilts}

\* The pixels asked of a sensor: every pixel in and around a small sensor;
\* the centre and two pixels outside of the default one.
CameraPixels(sensor) ==
    IF sensor.width > MaxPix
    THEN {<<sensor.width \div 2, sensor.height \div 2>>, <<-1, 0>>,
          <<sensor.width, sensor.height>>}
    ELSE (-1..MaxPix) \X (-1..MaxPix)

\* A call of Sensor::pixel_pos_to_render_pos that is still to be made.
SensorInputs ==
    {[op |-> "render_pos", sensor |-> sn, x |-> x, y |-> y, result |-> None] :
        sn \in ProbeSensors, x \in PixelCoords, y \in PixelCoords}

Idle ==
    [x |-> 0, y |-> 0, outcome |-> "idle", ray |-> "None", rayv |-> NoRay,
     inters |-> <<>>, closest |-> 0, calls |-> <<>>, color |-> BLACK]

NoProbe == [op |-> "none"]

\* A variable that holds nothing yet.
Unbuilt == [built |-> FALSE]

\* Largest number of calls made on a scene builder.
MaxCalls == 4

BuilderObjects ==
    { Construct(SphereArgs(VQ(0, 0, 100, 1), Int2F(50))),
      Construct(PlanArgs(VQ(0, 0, 50, 1), VQ(0, 0, 1, 1))) }

\* Below, inside and above the range with_ambiant clamps to.
BuilderAmbiants == { Q(-1, 2), Q(1, 2), Two }

\* The builder, the builder before the last call, the calls made on it and
\* the scene build() had returned before the last call.
NewBuilderProbe ==
    [op |-> "builder", builder |-> NewSceneBuilder, before |-> NewSceneBuilder,
     calls |-> <<>>, previous |-> Unbuilt]

\* Largest recursion budget of the renderer of lib.rs.
MaxRecursion == 3

\* Spheres centred at (0,0,5): tangent to, cut by and around rays from the
\* origin, and one of radius 0.
ShapeRadii == { Int2F(3), Q(15, 4), Int2F(13), Zero }

LegacyRays ==
    { Ray(ORIGIN, d) :
        d \in { VQ(0, 0, 1, 1), VQ(0, 3, 4, 5), VQ(0, 0, -1, 1), VQ(0, 0, 2, 1) } }

ShapeInputs ==
    { [op |-> "intersect", shape |-> NewShape(VQ(0, 0, 5, 1), r), ray |-> ray,
       roots |-> None, result |-> None] : r \in ShapeRadii, ray \in LegacyRays }

\* Matte and mirror materials.
Materials == { DefaultMaterial, Material(One, Zero) }

\* A sphere cut by the rays, a larger one behind it, and a sphere whose
\* radius is NaN.
TracedShapes ==
    { Shape(pc5[1], pc5[2], m) :
        pc5 \in { <<VQ(0, 0, 5, 1), Q(15, 4)>>, <<VQ(0, 0, 20, 1), Int2F(10)>>,
                  <<VQ(0, 0, 5, 1), NAN>> },
        m \in Materials }

\* A blue light two units in front of the point where the ray (0, 3/5, 4/5)
\* meets the first sphere.
BlueLight == DotLight(VQ(0, 21, -12, 20), One, <<0, 0, 0, 255>>)

LegacyScenes ==
    { LegacyScene(objects, lights, <<0, 0, 0, 0>>) :
        objects \in SeqsUpTo(TracedShapes, 1)
                        \cup { <<a, b>> : a \in TracedShapes, b \in TracedShapes },
        lights \in { <<>>, <<BlueLight>> } }

TraceInputs ==
    { [op |-> "trace_ray", scene |-> sc, ray |-> ray, recursion_max |-> n,
       result |-> None] :
        sc \in LegacyScenes, ray \in LegacyRays, n \in 0..MaxRecursion }

LegacyInputs == ShapeInputs \cup TraceInputs

\* Largest side of an image, and largest number of calls made on it.
MaxSide == 2
MaxDraws == 2

\* The colour handed to draw_pixel, 0x12345678, and the one handed to
\* Image::new, 0x00ff00ff.
DrawnColor == <<18, 52, 86, 120>>
FillColors == { None, Some(<<0, 255, 0, 255>>) }

\* A camera of field of view 90 degrees, whose rays through the images of
\* side 1 and 2 are at 0 and 45 degrees, and one of field of view 0, whose
\* rays all go down +Z; each with the sides of the images it renders.
RenderCameras ==
    { <<LegacyCamera(ORIGIN, VecZ, Degrees(90), One, IDENTITY), 1..2>>,
      <<LegacyCamera(ORIGIN, VecZ, Degrees(0), One, IDENTITY), 1..MaxSide>> }

\* The scene and recursion_max of a renderer: no shape; a matte sphere that
\* the ray down +Z meets at (0, 0, 2), under a blue light five units from
\* there; a mirror whose radius is NaN, without and with reflections.
RenderScenes ==
    { <<DefaultScene, 0>>,
      <<LegacyScene(<<Shape(VQ(0, 0, 5, 1), Int2F(3), DefaultMaterial)>>,
                    <<DotLight(VQ(0, 3, -2, 1), One, <<0, 0, 0, 255>>)>>,
                    <<0, 0, 0, 0>>), 0>>,
      <<LegacyScene(<<Shape(VQ(0, 0, 5, 1), NAN, Material(One, Zero))>>, <<>>,
                    <<0, 0, 0, 0>>), 0>>,
      <<LegacyScene(<<Shape(VQ(0, 0, 5, 1), NAN, Material(One, Zero))>>, <<>>,
                    <<0, 0, 0, 0>>), 1>> }

\* Images too large to allocate, for the index alone: 4 * x * y is
\* 2^32 - 2^17, 2^32 - 196612, 2^32 - 4, 2^32, 2^32 and 60.
LargeImages ==
    { [x |-> d[1], y |-> d[2]] :
        d \in { <<32767, 32768>>, <<65535, 16383>>, <<1, 1073741823>>,
                <<32768, 32768>>, <<1073741824, 1>>, <<3, 5>> } }

\* Pixels asked of them.
LargePixels ==
    { <<0, 0>>, <<1, 1>>, <<2, 4>>, <<32766, 32767>>, <<65534, 16382>>,
      <<0, 1073741822>>, <<32767, 32767>>, <<1073741823, 0>> }

\* Quaternions of norm exactly 1, with rational parts.
UnitQuats ==
    { Quat(Q(a[1], a[5]), Q(a[2], a[5]), Q(a[3], a[5]), Q(a[4], a[5])) :
        a \in { <<1, 0, 0, 0, 1>>, <<0, 1, 0, 0, 1>>, <<3, 4, 0, 0, 5>>,
                <<3, 0, 4, 0, 5>>, <<1, 1, 1, 1, 2>>, <<0, 3, 0, 4, 5>>,
                <<4, 0, 0, -3, 5>>, <<2, 1, 2, 0, 3>> } }

\* Quaternions of norm 2, 5, 2, 0 and 1/2.
NonUnitQuats ==
    { Quat(Q(a[1], a[5]), Q(a[2], a[5]), Q(a[3], a[5]), Q(a[4], a[5])) :
        a \in { <<2, 0, 0, 0, 1>>, <<0, 3, 0, 4, 1>>, <<1, 1, 1, 1, 1>>,
                <<0, 0, 0, 0, 1>>, <<1, 0, 0, 0, 2>> } }

RotatedVectors ==
    { VQ(1, 0, 0, 1), VQ(0, 1, 0, 1), VQ(0, 0, 1, 1), VQ(1, 2, 3, 1),
      VQ(-4, 0, 3, 5), ORIGIN }

\* Vectors of magnitude exactly 1, with rational coordinates.
ExactUnits ==
    { VQ(1, 0, 0, 1), VQ(-1, 0, 0, 1), VQ(0, 1, 0, 1), VQ(0, 0, 1, 1),
      VQ(0, 0, -1, 1), VQ(24, 0, 7, 25), VQ(7, 0, 24, 25), VQ(2, 2, 1, 3),
      VQ(2, -2, -1, 3) }

\* Unit vectors (8192, 0, +-16777215) / 16777217, at 4.9e-4 radians from +Z
\* and from -Z: their dot product with +Z is +-(1 - 2^-23), beyond
\* DOT_EPSILON.
NearZ == { VQ(8192, 0, 16777215, 16777217), VQ(8192, 0, -16777215, 16777217) }

UnitVectors == ExactUnits \cup NearZ

\* Vectors of magnitude 2, 5, 0 and 1/2.
NonUnitVectors == { VQ(0, 0, 2, 1), VQ(3, 0, 4, 1), ORIGIN, VQ(1, 0, 0, 2) }

RotateOps == { "rotate_vector", "Quaternion * Vector", "Vector * Quaternion" }

ComposeInputs ==
    { [op |-> "compose", q1 |-> q1, q2 |-> q2, v |-> v, result |-> None] :
        q1 \in UnitQuats, q2 \in UnitQuats, v \in RotatedVectors }

RotateInputs ==
    { [op |-> o, q |-> q, v |-> v, result |-> None] :
        o \in RotateOps, q \in UnitQuats \cup NonUnitQuats, v \in RotatedVectors }

RecipInputs ==
    { [op |-> "recip", q |-> q, result |-> None] : q \in UnitQuats \cup NonUnitQuats }

ArcPairs ==
    (ExactUnits \X ExactUnits) \cup ({VecZ} \X NearZ)
        \cup (ExactUnits \X NonUnitVectors) \cup (NonUnitVectors \X ExactUnits)

ArcInputs ==
    { [op |-> "from_arc", from |-> p[1], to |-> p[2], result |-> None] : p \in ArcPairs }

QuatInputs == ComposeInputs \cup RotateInputs \cup RecipInputs \cup ArcInputs

\* Ray directions and normals handed to a shader stage: unit vectors, and
\* vectors of magnitude 2.
ShadedDirs == { VQ(0, 0, 1, 1), VQ(0, 0, -1, 1), VQ(0, 3, 4, 5), VQ(0, 0, 2, 1) }

ShadedNormals ==
    { VQ(0, 0, 1, 1), VQ(0, 0, -1, 1), VQ(0, 3, -4, 5), VQ(0, 0, -2, 1), VQ(1, 0, 0, 1) }

ShadedColors == { WHITE, Rgba(200, 100, 50, 255), Rgba(255, 128, 1, 7) }

Stages == { Fast, DefaultGamma, GammaEncoder(One) }

StageInputs ==
    { [op |-> "compute_color", stage |-> s, ray |-> Ray(ORIGIN, d),
       intersection |-> Intersection(One, d, n), color |-> c, result |-> None] :
        s \in Stages, d \in ShadedDirs, n \in ShadedNormals, c \in ShadedColors }

\* Colours that take every channel value 0..255 in R, G and B, under three
\* alphas.
EncodedColors ==
    { Rgba(c, 255 - c, (7 * c) % 256, a) : c \in 0..255, a \in {0, 128, 255} }

EncodeInputs ==
    { [op |-> "encode", stage |-> GammaEncoder(f), color |-> c, result |-> None] :
        f \in {One, Q(22, 10)}, c \in EncodedColors }

ShaderInputs == StageInputs \cup EncodeInputs

----------------------------------------------------------------------------
(* The renderer: a camera, a scene and a renderer are constructed into a    *)
(* Model, then pixels are rendered.                                         *)

Init ==
    /\ pc = "start"
    /\ debug \in BOOLEAN
    /\ nanSign \in {0, 1}
    /\ camera = Unbuilt
    /\ scene = Unbuilt
    /\ renderer = Unbuilt
    /\ pixel = Idle
    /\ probe = NoProbe

\* A camera at the origin looking down +Z, a scene of the listed objects and
\* a renderer, handed to Model::new.
NewModel(sensor, fov, objects, background) ==
    /\ pc = "start"
    /\ pc' = "ready"
    /\ camera' = NewCamera(ORIGIN, VecZ, sensor, fov, Degrees(0))
    /\ scene' = NewScene([k \in 1..Len(objects) |-> Construct(objects[k])],
                         <<>>, Q(3, 10))
    /\ renderer' = NewRenderer(background)
    /\ UNCHANGED <<debug, nanSign, pixel, probe>>

RenderPixel(x, y) ==
    /\ pc = "ready"
    /\ pixel' = render_pixel(renderer, x, y, camera, scene)
    /\ UNCHANGED <<pc, debug, nanSign, camera, scene, renderer, probe>>

Next ==
    \/ \E sensor \in Sensors, fov \in Fovs, background \in Backgrounds,
          objects \in SeqsUpTo(SceneObjects, MaxObjects) :
           NewModel(sensor, fov, objects, background)
    \/ \E x \in 0..MaxPix, y \in 0..MaxPix : RenderPixel(x, y)

Spec == Init /\ [][Next]_vars

----------------------------------------------------------------------------
(* The camera alone: Camera::new, then Camera::get_ray on coordinates in    *)
(* and around the sensor.                                                   *)

NewCam(pos, dir, sensor, fov, tilt) ==
    /\ pc = "start"
    /\ pc' = "ready"
    /\ camera' = NewCamera(pos, dir, sensor, fov, tilt)
    /\ UNCHANGED <<debug, nanSign, scene, renderer, pixel, probe>>

GetRay(x, y) ==
    /\ pc = "ready"
    /\ probe' = [op |-> "get_ray", x |-> x, y |-> y, result |-> get_ray(camera, x, y)]
    /\ UNCHANGED <<pc, debug, nanSign, camera, scene, renderer, pixel>>

NextCamera ==
    \/ \E pos \in CameraPositions, setup \in CameraSetups, fov \in Fovs :
           NewCam(pos, setup[1], setup[2], fov, setup[3])
    \/ pc = "ready" /\ \E p \in CameraPixels(camera.sensor) : GetRay(p[1], p[2])

CameraSpec == Init /\ [][NextCamera]_vars

----------------------------------------------------------------------------
(* The object solvers alone: an object is constructed and Object::intersect *)
(* is called on it with one ray.                                            *)

InitSolver ==
    /\ pc = "start"
    /\ debug = FALSE
    /\ nanSign \in {0, 1}
    /\ camera = Unbuilt
    /\ scene = Unbuilt
    /\ renderer = Unbuilt
    /\ pixel = Idle
    /\ probe \in SolverInputs

Intersect ==
    /\ pc = "start"
    /\ probe.op = "intersect"
    /\ pc' = "done"
    /\ probe' = [probe EXCEPT !.object = Construct(probe.args),
                              !.result = intersect(Construct(probe.args), probe.ray)]
    /\ UNCHANGED <<debug, nanSign, camera, scene, renderer, pixel>>

NextSolver == Intersect

SolverSpec == InitSolver /\ [][NextSolver]_vars

----------------------------------------------------------------------------
(* The root finder alone: Polynom2::roots on one polynomial.                *)

InitRoots ==
    /\ pc = "start"
    /\ debug = FALSE
    /\ nanSign \in {0, 1}
    /\ camera = Unbuilt
    /\ scene = Unbuilt
    /\ renderer = Unbuilt
    /\ pixel = Idle
    /\ probe \in PolyInputs

Roots ==
    /\ pc = "start"
    /\ probe.op = "roots"
    /\ pc' = "done"
    /\ probe' = [probe EXCEPT !.result = roots(probe.a, probe.b, probe.c)]
    /\ UNCHANGED <<debug, nanSign, camera, scene, renderer, pixel>>

NextRoots == Roots

RootsSpec == InitRoots /\ [][NextRoots]_vars

----------------------------------------------------------------------------
(* The sensor alone: Sensor::pixel_pos_to_render_pos on one pixel.          *)

InitSensor ==
    /\ pc = "start"
    /\ debug = FALSE
    /\ nanSign \in {0, 1}
    /\ camera = Unbuilt
    /\ scene = Unbuilt
    /\ renderer = Unbuilt
    /\ pixel = Idle
    /\ probe \in SensorInputs

RenderPos ==
    /\ pc = "start"
    /\ probe.op = "render_pos"
    /\ pc' = "done"
    /\ probe' = [probe EXCEPT
                    !.result = pixel_pos_to_render_pos(probe.sensor, probe.x, probe.y)]
    /\ UNCHANGED <<debug, nanSign, camera, scene, renderer, pixel>>

NextSensor == RenderPos

SensorSpec == InitSensor /\ [][NextSensor]_vars

----------------------------------------------------------------------------
(* The quaternions alone: one call of the rotation API, in a debug or in a  *)
(* release build.                                                           *)

InitQuat ==
    /\ pc = "start"
    /\ debug \in BOOLEAN
    /\ nanSign \in {0, 1}
    /\ camera = Unbuilt
    /\ scene = Unbuilt
    /\ renderer = Unbuilt
    /\ pixel = Idle
    /\ probe \in QuatInputs

\* v rotated by q1 * q2, and v rotated by q2 then by q1.
Compose ==
    /\ pc = "start"
    /\ probe.op = "compose"
    /\ pc' = "done"
    /\ LET Then(inner) ==
               IF inner.tag = "panic" THEN Panic
               ELSE rotate_vector_call(probe.q1, inner.value)
       IN probe' = [probe EXCEPT !.result =
               [once  |-> rotate_vector_call(QMul(probe.q1, probe.q2), probe.v),
                twice |-> Then(rotate_vector_call(probe.q2, probe.v))]]
    /\ UNCHANGED <<debug, nanSign, camera, scene, renderer, pixel>>

Rotate ==
    /\ pc = "start"
    /\ probe.op \in RotateOps
    /\ pc' = "done"
    /\ probe' = [probe EXCEPT !.result =
            CASE probe.op = "rotate_vector" -> rotate_vector_call(probe.q, probe.v)
              [] probe.op = "Quaternion * Vector" -> mul_quaternion_vector(probe.q, probe.v)
              [] probe.op = "Vector * Quaternion" -> mul_vector_quaternion(probe.v, probe.q)]
    /\ UNCHANGED <<debug, nanSign, camera, scene, renderer, pixel>>

Recip ==
    /\ pc = "start"
    /\ probe.op = "recip"
    /\ pc' = "done"
    /\ probe' = [probe EXCEPT !.result = recip(probe.q)]
    /\ UNCHANGED <<debug, nanSign, camera, scene, renderer, pixel>>

FromArc ==
    /\ pc = "start"
    /\ probe.op = "from_arc"
    /\ pc' = "done"
    /\ probe' = [probe EXCEPT !.result = from_arc_call(probe.from, probe.to)]
    /\ UNCHANGED <<debug, nanSign, camera, scene, renderer, pixel>>

NextQuat == Compose \/ Rotate \/ Recip \/ FromArc

QuatSpec == InitQuat /\ [][NextQuat]_vars

----------------------------------------------------------------------------
(* The shader stages alone: one call of Shader::compute_color or of         *)
(* GammaEncoder::encode.                                                    *)

InitShader ==
    /\ pc = "start"
    /\ debug = FALSE
    /\ nanSign \in {0, 1}
    /\ camera = Unbuilt
    /\ scene = Unbuilt
    /\ renderer = Unbuilt
    /\ pixel = Idle
    /\ probe \in ShaderInputs

ComputeColor ==
    /\ pc = "start"
    /\ probe.op = "compute_color"
    /\ pc' = "done"
    /\ probe' = [probe EXCEPT !.result =
            compute_color(probe.stage, probe.ray, 0, probe.intersection, probe.color)]
    /\ UNCHANGED <<debug, nanSign, camera, scene, renderer, pixel>>

Encode ==
    /\ pc = "start"
    /\ probe.op = "encode"
    /\ pc' = "done"
    /\ probe' = [probe EXCEPT !.result = encode(probe.stage, probe.color)]
    /\ UNCHANGED <<debug, nanSign, camera, scene, renderer, pixel>>

NextShader == ComputeColor \/ Encode

ShaderSpec == InitShader /\ [][NextShader]_vars

----------------------------------------------------------------------------
(* The scene builder alone: SceneBuilder::new, then with_object, with_light, *)
(* with_ambiant and build in any order.                                      *)

InitBuilder ==
    /\ pc = "start"
    /\ debug = FALSE
    /\ nanSign \in {0, 1}
    /\ camera = Unbuilt
    /\ scene = Unbuilt
    /\ renderer = Unbuilt
    /\ pixel = Idle
    /\ probe = NewBuilderProbe

\* One call on the builder, which becomes `after`.
Called(name, arg, after) ==
    /\ pc = "start"
    /\ Len(probe.calls) < MaxCalls
    /\ probe' = [probe EXCEPT !.builder = after, !.before = probe.builder,
                              !.calls = Append(@, [call |-> name, arg |-> arg]),
                              !.previous = scene]
    /\ UNCHANGED <<pc, debug, nanSign, camera, renderer, pixel>>

WithObject(obj) ==
    /\ Called("with_object", obj, with_object(probe.builder, obj))
    /\ UNCHANGED scene

WithLight(obj) ==
    /\ Called("with_light", obj, with_light(probe.builder, obj))
    /\ UNCHANGED scene

WithAmbiant(ambiant) ==
    /\ Called("with_ambiant", ambiant, with_ambiant(probe.builder, ambiant))
    /\ UNCHANGED scene

Build ==
    /\ Called("build", None, probe.builder)
    /\ scene' = build(probe.builder)

NextBuilder ==
    \/ \E obj \in BuilderObjects : WithObject(obj)
    \/ WithLight(Directional)
    \/ \E ambiant \in BuilderAmbiants : WithAmbiant(ambiant)
    \/ Build

BuilderSpec == InitBuilder /\ [][NextBuilder]_vars

----------------------------------------------------------------------------
(* The library crate of lib.rs: one call of Shape::intersect on a sphere,   *)
(* or one ray traced by Renderer::render_pixel through Scene::trace_ray     *)
(* with the renderer's recursion_max.                                       *)

InitLegacy ==
    /\ pc = "start"
    /\ debug = FALSE
    /\ nanSign \in {0, 1}
    /\ camera = Unbuilt
    /\ scene = Unbuilt
    /\ renderer = Unbuilt
    /\ pixel = Idle
    /\ probe \in LegacyInputs

SphereIntersects ==
    /\ pc = "start"
    /\ probe.op = "intersect"
    /\ pc' = "done"
    /\ LET Of(poly) ==
               [probe EXCEPT !.roots = root(poly.a, poly.b, poly.c),
                             !.result = ShapeIntersect(probe.shape, probe.ray)]
       IN probe' = Of(ShapeCoef(probe.shape, probe.ray))
    /\ UNCHANGED <<debug, nanSign, camera, scene, renderer, pixel>>

TraceRay ==
    /\ pc = "start"
    /\ probe.op = "trace_ray"
    /\ pc' = "done"
    /\ probe' = [probe EXCEPT
                    !.result = trace_ray(probe.scene, probe.ray, probe.recursion_max)]
    /\ UNCHANGED <<debug, nanSign, camera, scene, renderer, pixel>>

NextLegacy == SphereIntersects \/ TraceRay

LegacySpec == InitLegacy /\ [][NextLegacy]_vars

----------------------------------------------------------------------------
(* The image and the renderer of lib.rs: draw_pixel and render called on a  *)
(* renderer, and the index of draw_pixel on the images too large to         *)
(* allocate.  held is the last colour drawn to each pixel, if any.          *)

InitImage ==
    /\ pc = "start"
    /\ debug \in BOOLEAN
    /\ nanSign \in {0, 1}
    /\ camera = Unbuilt
    /\ scene = Unbuilt
    /\ renderer = Unbuilt
    /\ pixel = Idle
    /\ probe = NoProbe

\* Renderer::new, then the assignment of its public fields.
NewRendering(cam, x, y, fill, sc, recursion_max) ==
    /\ pc = "start"
    /\ pc' = "ready"
    /\ LET Of(image) ==
               [op |-> "image",
                renderer |-> [LegacyRenderer(x, y, Some(cam)) EXCEPT
                                 !.image = image, !.scene = sc,
                                 !.recursion_max = recursion_max],
                initial |-> image,
                held |-> [k \in 1..(x * y) |-> None],
                calls |-> 0,
                call |-> [name |-> "none"]]
       IN probe' = Of(NewImage(x, y, fill))
    /\ UNCHANGED <<debug, nanSign, camera, scene, renderer, pixel>>

\* The place of pixel (x, y) in held.
PixelOf(image, x, y) == x * image.y + y + 1

\* held after the draws of a render, from the k-th on.
RECURSIVE HeldAfter(_, _, _, _)
HeldAfter(held, image, drawn, k) ==
    IF k > Len(drawn) THEN held
    ELSE HeldAfter([held EXCEPT ![PixelOf(image, drawn[k].x, drawn[k].y)] =
                                    Some(drawn[k].color)],
                   image, drawn, k + 1)

DrawPixel(x, y, color) ==
    /\ pc = "ready"
    /\ probe.calls < MaxDraws
    /\ x < probe.renderer.image.x
    /\ y < probe.renderer.image.y
    /\ LET Of(image) ==
               /\ pc' = IF image.tag = "panic" THEN "done" ELSE "ready"
               /\ probe' =
                      [probe EXCEPT
                          !.renderer.image =
                              IF image.tag = "panic" THEN @ ELSE image.value,
                          !.held[PixelOf(probe.renderer.image, x, y)] =
                              IF image.tag = "panic" THEN @ ELSE Some(color),
                          !.calls = @ + 1,
                          !.call = [name |-> "draw_pixel", tag |-> image.tag,
                                    x |-> x, y |-> y, color |-> color,
                                    before |-> probe.renderer.image]]
       IN Of(draw_pixel(probe.renderer.image, x, y, color))
    /\ UNCHANGED <<debug, nanSign, camera, scene, renderer, pixel>>

Render ==
    /\ pc = "ready"
    /\ probe.calls < MaxDraws
    /\ LET Of(r) ==
               /\ pc' = IF r.tag = "panic" THEN "done" ELSE "ready"
               /\ probe' =
                      [probe EXCEPT
                          !.renderer = r.renderer,
                          !.held = HeldAfter(@, probe.renderer.image, r.drawn, 1),
                          !.calls = @ + 1,
                          !.call = [name |-> "render", tag |-> r.tag, drawn |-> r.drawn,
                                    before |-> probe.renderer.image]]
       IN Of(render(probe.renderer))
    /\ UNCHANGED <<debug, nanSign, camera, scene, renderer, pixel>>

\* The index of draw_pixel alone, on an image too large to allocate.
PixelIndex(image, x, y) ==
    /\ pc = "start"
    /\ pc' = "done"
    /\ probe' = [op |-> "index", image |-> image, x |-> x, y |-> y,
                 index |-> draw_index(image, x, y)]
    /\ UNCHANGED <<debug, nanSign, camera, scene, renderer, pixel>>

NextImage ==
    \/ pc = "start" /\
           \E cs \in RenderCameras, fill \in FillColors, sc \in RenderScenes :
               \E x \in cs[2], y \in cs[2] :
                   NewRendering(cs[1], x, y, fill, sc[1], sc[2])
    \/ pc = "ready" /\
           \E x \in 0..(MaxSide - 1), y \in 0..(MaxSide - 1) : DrawPixel(x, y, DrawnColor)
    \/ Render
    \/ pc = "start" /\
           \E image \in LargeImages, p \in LargePixels : PixelIndex(image, p[1], p[2])

ImageSpec == InitImage /\ [][NextImage]_vars

----------------------------------------------------------------------------
(* Properties of Renderer::render_pixel, checked under Spec.                *)

\* Numeric equality of two vectors, coordinate by coordinate.
VEq(u, v) == FEq(u.x, v.x) /\ FEq(u.y, v.y) /\ FEq(u.z, v.z)

Rendered == pixel.outcome # "idle"

Shaded == pixel.outcome = "returned" /\ pixel.closest # 0

\* C1: the hit that is shaded has a minimal distance among the hits the
\* objects of the scene returned for the ray: no returned intersection has a
\* strictly smaller distance, in the order of < and in the order of total_cmp.
C1_NearestHit ==
    Shaded =>
        \A k \in 1..Len(pixel.inters) :
            /\ ~FLt(pixel.inters[k].i.dist, pixel.inters[pixel.closest].i.dist)
            /\ total_cmp(pixel.inters[k].i.dist, pixel.inters[pixel.closest].i.dist) >= 0

\* Two spheres hit at distances 150 and 50, the farther listed first: the
\* distance-50 hit is the one shaded.
C1_Witness ==
    /\ Shaded
    /\ Len(pixel.inters) = 2
    /\ pixel.inters[1].i.dist = Int2F(150)
    /\ pixel.inters[2].i.dist = Int2F(50)
    /\ pixel.closest = 2

\* C4: render_pixel returns the renderer's background colour, with no shader
\* stage invoked, when the camera yields no ray or no object returns an
\* intersection for the ray; and every pixel asked of a scene with no
\* objects returns the background colour without failure.
C4_BackgroundFallback ==
    Rendered =>
        /\ (pixel.ray = "None" \/ (pixel.ray = "Some" /\ pixel.inters = <<>>)) =>
               /\ pixel.outcome = "returned"
               /\ pixel.color = renderer.background
               /\ pixel.calls = <<>>
        /\ scene.objects = <<>> =>
               /\ pixel.outcome = "returned"
               /\ pixel.color = renderer.background

\* C5: on a hit the stages of the renderer are invoked once each, in list
\* order, with the same ray, hit object and intersection; the first is fed
\* opaque white, each later one the output of the stage before it, and the
\* last output is the pixel colour; the stages of Renderer::new are Fast then
\* GammaEncoder(2.2).
C5_ShaderFold ==
    Shaded =>
        LET hit == pixel.inters[pixel.closest]
            n   == Len(pixel.calls)
        IN /\ renderer.shaders = <<Fast, GammaEncoder(Q(22, 10))>>
           /\ n = Len(renderer.shaders)
           /\ \A k \in 1..n :
                  /\ pixel.calls[k].stage = renderer.shaders[k]
                  /\ pixel.calls[k].ray = pixel.rayv
                  /\ pixel.calls[k].object = hit.o
                  /\ pixel.calls[k].intersection = hit.i
                  /\ pixel.calls[k].input =
                         IF k = 1 THEN WHITE ELSE pixel.calls[k - 1].output
                  /\ pixel.calls[k].output =
                         compute_color(renderer.shaders[k], pixel.rayv, hit.o, hit.i,
                                       pixel.calls[k].input)
           /\ pixel.color = pixel.calls[n].output
           /\ pixel.color = encode(DefaultGamma, FastColor(pixel.rayv, hit.i, WHITE))

\* A hit on which Fast darkens the seed and the gamma encoder changes what
\* Fast returned.
C5_Witness ==
    /\ Shaded
    /\ Len(pixel.calls) = 2
    /\ pixel.calls[1].output # WHITE
    /\ pixel.calls[2].output # pixel.calls[1].output
    /\ pixel.color = pixel.calls[2].output

\* C23: every colour render_pixel returns has alpha 0xFF, on the hit path,
\* the no-hit path and the out-of-sensor path, for every renderer built by
\* Renderer::new.
C23_AlwaysOpaque ==
    (Rendered /\ pixel.outcome = "returned") => pixel.color[4] = 255

\* The hit path returns an opaque colour whatever the background.
C23_HitOpaque == Shaded => pixel.color[4] = 255

\* The three paths return an opaque colour when the background is opaque.
C23_OpaqueBackground ==
    (Rendered /\ pixel.outcome = "returned" /\ renderer.background[4] = 255)
        => pixel.color[4] = 255

\* A ray that hits nothing returns the half-transparent background.
C23_NoHitTranslucent ==
    /\ Rendered
    /\ pixel.ray = "Some"
    /\ pixel.inters = <<>>
    /\ pixel.color = Rgba(0, 255, 0, 128)

\* A pixel outside the sensor returns the half-transparent background.
C23_OutsideTranslucent ==
    /\ Rendered
    /\ pixel.ray = "None"
    /\ pixel.color = Rgba(0, 255, 0, 128)

\* A hit under the half-transparent background.
C23_HitUnderTranslucent ==
    /\ Shaded
    /\ renderer.background = Rgba(0, 255, 0, 128)
    /\ pixel.color[4] = 255

\* C26: when several objects return intersections at the same minimal
\* distance, render_pixel shades the one that comes first in scene.objects
\* order, and the same scene and pixel give the same result on another call.
C26_FirstOfEqual ==
    Shaded =>
        /\ \A k \in 1..Len(pixel.inters) :
               FEq(pixel.inters[k].i.dist, pixel.inters[pixel.closest].i.dist)
                   => /\ pixel.closest <= k
                      /\ pixel.inters[pixel.closest].o <= pixel.inters[k].o
        /\ pixel.calls[1].object = pixel.inters[pixel.closest].o
        /\ pixel = render_pixel(renderer, pixel.x, pixel.y, camera, scene)

\* A sphere and a plane both hit at distance 50, the plane listed first.
C26_Witness ==
    /\ Shaded
    /\ Len(pixel.inters) = 2
    /\ pixel.inters[1].i.dist = Int2F(50)
    /\ pixel.inters[2].i.dist = Int2F(50)
    /\ scene.objects[1].type = "Plan"
    /\ scene.objects[2].type = "Sphere"
    /\ pixel.closest = 1
    /\ pixel.calls[1].object = 1

----------------------------------------------------------------------------
(* Properties of Camera::get_ray, checked under CameraSpec.                 *)

InBounds(sensor, x, y) == 0 <= x /\ x < sensor.width /\ 0 <= y /\ y < sensor.height

\* C6: get_ray(x, y) returns a ray if and only if (x, y) is a pixel of the
\* sensor, 0 <= x < width and 0 <= y < height, whatever the sensor's size.
C6_RayIffInBounds ==
    probe.op = "get_ray" =>
        (probe.result.tag = "Some" <=> InBounds(camera.sensor, probe.x, probe.y))

\* get_ray was asked for the centre pixel of the sensor.
CentreAsked ==
    /\ probe.op = "get_ray"
    /\ probe.x = camera.sensor.width \div 2
    /\ probe.y = camera.sensor.height \div 2
    /\ camera.tilt.deg = 0

\* The ray leaves the camera's position along its look direction.
AlongLook ==
    /\ probe.result.tag = "Some"
    /\ VEq(probe.result.ray.orig, camera.pos)
    /\ VEq(probe.result.ray.dir, camera.dir)

\* C15: for a camera with no tilt, get_ray at the centre pixel
\* (floor(width / 2), floor(height / 2)) returns a ray from the camera's
\* position along its normalized look direction.
C15_CentreRay == CentreAsked => AlongLook

\* The same on the cameras whose sensor is at a distance above zero: it
\* holds.
C15_SensorAhead == (CentreAsked /\ FGt(camera.dist, Zero)) => AlongLook

\* The round trip of the specification, away from the origin: a 512x512
\* sensor, pixel (256, 256), looking down +Z.
C15_RoundTrip ==
    /\ CentreAsked
    /\ camera.sensor = NewSensor(512, 512)
    /\ probe.x = 256
    /\ camera.pos = VQ(1, 2, 3, 1)
    /\ probe.result.tag = "Some"
    /\ probe.result.ray.dir = VecZ

\* A camera that looks off the Z axis, asked for its centre pixel.
C15_OffAxis ==
    /\ CentreAsked
    /\ AlongLook
    /\ camera.dir = VQ(24, 0, 7, 25)

\* Camera::new has run.
CameraBuilt == pc = "ready" /\ camera.tilt.conv = 1

\* The orientation made of the arc from +Z to the look direction and of a
\* rotation about +Z by the given angle.
Oriented(angle) == QMul(from_arc(VecZ, camera.dir), from_rotation(angle, VecZ))

\* C27: Camera::new stores the orientation from_arc(+Z, normalized
\* direction) * from_rotation(roll, +Z), where the roll is the tilt given in
\* degrees converted to radians once, so that a tilt of 90 is a quarter
\* turn about the look direction and a tilt of 180 a half turn.
C27_TiltOnceConverted == CameraBuilt => camera.base_rot = Oriented(camera.tilt)

\* The same on the cameras built without tilt: it holds.
C27_Untilted ==
    (CameraBuilt /\ camera.tilt.deg = 0) => camera.base_rot = Oriented(camera.tilt)

\* What Camera::new stores: the roll is the tilt converted twice.
C27_TiltTwiceConverted ==
    CameraBuilt => camera.base_rot = Oriented(to_radians(camera.tilt))

\* A camera that looks down +Z with a tilt of 180 degrees: its orientation
\* turns +X by less than four degrees, where a half turn gives -X.
C27_HalfTurn ==
    /\ CameraBuilt
    /\ camera.tilt.deg = 180
    /\ camera.dir = VecZ
    /\ FGt(rotate_vector(camera.base_rot, Vec(One, Zero, Zero)).x, Q(998, 1000))
    /\ FEq(rotate_vector(Oriented(camera.tilt), Vec(One, Zero, Zero)).x, Int2F(-1))

\* get_ray on a tilted camera, at the centre pixel.
C27_TiltedRay ==
    /\ CameraBuilt
    /\ camera.tilt.deg = 180
    /\ probe.op = "get_ray"
    /\ probe.result.tag = "Some"

----------------------------------------------------------------------------
(* Properties of Sensor::pixel_pos_to_render_pos, checked under SensorSpec. *)

\* The call was made on a pixel of the sensor.
PixelMapped ==
    /\ probe.op = "render_pos"
    /\ pc = "done"
    /\ InBounds(probe.sensor, probe.x, probe.y)

\* The render position is the centred, Y-flipped pixel; a pixel further
\* right has a larger render X, row 0 has a larger render Y than any other
\* row, and no other pixel has the same render position.
CentredFlipped ==
    /\ IsSome(probe.result)
    /\ FEq(Unwrap(probe.result)[1], Int2F(probe.x - probe.sensor.width \div 2))
    /\ FEq(Unwrap(probe.result)[2], Int2F(-(probe.y - probe.sensor.height \div 2)))
    /\ \A x2 \in PixelCoords, y2 \in PixelCoords :
           InBounds(probe.sensor, x2, y2) =>
               LET here  == Unwrap(probe.result)
                   there == Unwrap(pixel_pos_to_render_pos(probe.sensor, x2, y2))
               IN /\ x2 > probe.x => FGt(there[1], here[1])
                  /\ (probe.y = 0 /\ y2 > 0) => FGt(here[2], there[2])
                  /\ <<x2, y2>> # <<probe.x, probe.y>> =>
                         ~(FEq(there[1], here[1]) /\ FEq(there[2], here[2]))

\* C14: for every sensor with sides below 2^31 and every pixel (x, y) of
\* it, pixel_pos_to_render_pos returns (x - floor(width / 2),
\* -(y - floor(height / 2))): render X increases with x, row 0 has the
\* largest render Y, and distinct pixels have distinct render positions.
C14_CentredFlipped == PixelMapped => CentredFlipped

\* The same on the sensors whose sides are at most 2^25, where every
\* centred coordinate is an integer of magnitude at most 2^24: it holds.
C14_ExactSides ==
    (/\ PixelMapped
     /\ probe.sensor.width <= 2 * Mantissa24
     /\ probe.sensor.height <= 2 * Mantissa24) => CentredFlipped

----------------------------------------------------------------------------
(* Properties of the object solvers, checked under SolverSpec.              *)

Solved == probe.op = "intersect" /\ pc = "done"

Quadric == probe.object.type \in {"Sphere", "Cylinder", "Cone"}

\* The discriminant of the quadratic the solver built.
Delta ==
    LET p == Coef(probe.object, probe.ray) IN discriminant(p.a, p.b, p.c)

\* The roots Polynom2::roots returned to the solver.
SolverRoots ==
    LET p == Coef(probe.object, probe.ray) IN roots(p.a, p.b, p.c)

\* The hit is a finite distance computed with an exact square root.
ExactHit ==
    /\ Solved
    /\ Quadric
    /\ IsSome(probe.result)
    /\ Unwrap(probe.result).dist.k = "fin"
    /\ SqrtExact(Delta)

\* C2: a returned intersection has a distance strictly greater than 0, the
\* smallest strictly positive root of the solver's equation; when every root
\* is <= 0 the solver returns None.
C2_PositiveDistance ==
    Solved =>
        /\ IsSome(probe.result) =>
               /\ FGt(Unwrap(probe.result).dist, Zero)
               /\ (Quadric /\ IsSome(SolverRoots)) =>
                      \A i \in 1..2 :
                          FGt(Unwrap(SolverRoots)[i], Zero) =>
                              FLe(Unwrap(probe.result).dist, Unwrap(SolverRoots)[i])
        /\ (/\ Quadric
            /\ IsSome(SolverRoots)
            /\ \A i \in 1..2 : ~FGt(Unwrap(SolverRoots)[i], Zero)) =>
               probe.result = None

\* C3: no returned intersection has a NaN distance.
C3_NoNaNDistance ==
    (Solved /\ IsSome(probe.result)) => ~is_nan(Unwrap(probe.result).dist)

\* C8: when the discriminant of the solver's quadratic is within 1e-7 of
\* zero, Sphere, Cylinder and Cone return None.
C8_TangentIsAbsent ==
    (Solved /\ Quadric /\ FLe(FAbs(Delta), Eps7)) => probe.result = None

\* C9: Cylinder::intersect solves a t^2 + b t + c = 0 with a = 1 - (D.A)^2,
\* b = 2 (adj.D - (D.A)(adj.A)) and c = |adj|^2 - (adj.A)^2 - R^2, and every
\* hit point is at perpendicular distance R from the axis.
C9_OnCylinder ==
    (Solved /\ probe.object.type = "Cylinder") =>
        LET D   == probe.ray.dir
            A   == probe.object.dir
            R   == probe.object.radius
            adj == VSub(probe.ray.orig, probe.object.pos)
            p   == CylinderCoef(probe.object, probe.ray)
        IN /\ FEq(p.a, FSub(One, Sq(dot(D, A))))
           /\ FEq(p.b, FMul(Two, FSub(dot(adj, D), FMul(dot(D, A), dot(adj, A)))))
           /\ FEq(p.c, FSub(FSub(magn2(adj), Sq(dot(adj, A))), Sq(R)))
           /\ ExactHit =>
                  LET v == VSub(Unwrap(probe.result).pos, probe.object.pos)
                  IN FEq(FSub(magn2(v), Sq(dot(v, A))), Sq(R))

\* C10: every hit point of Cone::intersect lies on the double-napped cone of
\* the given apex, axis A and half-angle theta: with v = hit - apex,
\* |v|^2 - (v.A)^2 = tan^2(theta) (v.A)^2.
C10_OnCone ==
    (Solved /\ probe.object.type = "Cone" /\ ExactHit) =>
        LET A == probe.object.dir
            v == VSub(Unwrap(probe.result).pos, probe.object.pos)
        IN FEq(FSub(magn2(v), Sq(dot(v, A))),
               FMul(TanSq(probe.object.angle), Sq(dot(v, A))))

\* The ray points at the centre of the sphere, which is L away, from outside.
AimedAtCentre(L) ==
    /\ Solved
    /\ probe.object.type = "Sphere"
    /\ VEq(VSub(probe.object.pos, probe.ray.orig), VScale(probe.ray.dir, L))
    /\ FGt(L, probe.object.radius)
    /\ FGt(probe.object.radius, Zero)

\* The hit the centred ray must get: at L - R, on the surface, normal -D.
CentredHit(L) ==
    /\ IsSome(probe.result)
    /\ FEq(Unwrap(probe.result).dist, FSub(L, probe.object.radius))
    /\ VEq(Unwrap(probe.result).pos,
           VAdd(probe.ray.orig, VScale(probe.ray.dir, FSub(L, probe.object.radius))))
    /\ VEq(Unwrap(probe.result).normal, VNeg(probe.ray.dir))

\* C11: for a unit-direction ray from outside a sphere of radius R, aimed at
\* the centre L > R away, Sphere::intersect returns the hit at distance
\* L - R, at origin + (L - R) D, with the unit outward normal -D.
C11_CentredSphereHit ==
    LET L == dot(VSub(probe.object.pos, probe.ray.orig), probe.ray.dir)
    IN AimedAtCentre(L) => CentredHit(L)

\* The same restricted to the spheres whose discriminant 4 R^2 is above the
\* 1e-7 of the tangent branch of Polynom2::roots: it holds there.
C11_AboveThreshold ==
    LET L == dot(VSub(probe.object.pos, probe.ray.orig), probe.ray.dir)
    IN (AimedAtCentre(L) /\ FGt(Sq(FMul(Two, probe.object.radius)), Eps7)) =>
           CentredHit(L)

\* The ground truth of the specification: centre (0,0,100), radius 50, ray
\* +Z from the origin, hit at distance 50.
C11_GroundTruth ==
    /\ Solved
    /\ probe.object.type = "Sphere"
    /\ probe.object.radius = Int2F(50)
    /\ probe.ray.dir = VecZ
    /\ IsSome(probe.result)
    /\ Unwrap(probe.result).dist = Int2F(50)
    /\ VEq(Unwrap(probe.result).pos, VQ(0, 0, 50, 1))
    /\ VEq(Unwrap(probe.result).normal, VQ(0, 0, -1, 1))

\* The solver returned an intersection.
Hit == Solved /\ IsSome(probe.result)

\* The normal of the returned intersection has magnitude 1: no component is
\* above 1 in magnitude and the squares add up to 1.
UnitNormal ==
    LET Of(n) ==
            /\ \A c \in {n.x, n.y, n.z} : FLe(FAbs(c), One)
            /\ FEq(magn2(n), One)
    IN Of(Unwrap(probe.result).normal)

\* C29: every Intersection returned by an object solver, Sphere, Cylinder,
\* Plan or Cone, has a normal of unit length.
C29_UnitNormal == Hit => UnitNormal

\* The same for the solvers that normalize, Sphere and Cylinder, where the
\* vector they normalize is finite and its magnitude is computed exactly,
\* and for Plan, whose stored normal is exactly a unit vector: it holds.
C29_Normalized ==
    LET Exact(v) == magn2(v).k = "fin" /\ ~IsZero(magn2(v)) /\ SqrtExact(magn2(v))
        Raw(hit) ==
            CASE probe.object.type = "Sphere" ->
                     Exact(VSub(hit.pos, probe.object.pos))
              [] probe.object.type = "Cylinder" ->
                     Exact(VSub(hit.pos,
                                VAdd(probe.object.pos,
                                     VScale(probe.object.dir,
                                            dot(VSub(hit.pos, probe.object.pos),
                                                probe.object.dir)))))
              [] probe.object.type = "Plan" ->
                     FEq(magn2(probe.object.norm), One)
              [] OTHER -> FALSE
    IN (Hit /\ Raw(Unwrap(probe.result))) => UnitNormal

\* A cone hit whose normal is finite and not of unit length.
C29_ConeNormal ==
    /\ Hit
    /\ probe.object.type = "Cone"
    /\ Unwrap(probe.result).normal.x.k = "fin"
    /\ ~UnitNormal

\* Hits of each normalizing solver with a unit normal.
C29_SphereUnit == Hit /\ probe.object.type = "Sphere" /\ UnitNormal

C29_CylinderUnit == Hit /\ probe.object.type = "Cylinder" /\ UnitNormal

PlanSolved == Solved /\ probe.object.type = "Plan"

\* The solution of (O + t D - P).N = 0 for the ray and the plane.
PlanT ==
    FDiv(dot(VSub(probe.object.pos, probe.ray.orig), probe.object.norm),
         dot(probe.ray.dir, probe.object.norm))

\* C12: a hit of Plan::intersect has a distance t > 1e-7 with
\* (O + t D - P).N = 0 and a normal, +N or -N, that faces the ray
\* (normal . D < 0); when the solution t is at most 1e-7 the result is None.
C12_PlanHit ==
    PlanSolved =>
        /\ IsSome(probe.result) =>
               LET hit == Unwrap(probe.result)
                   at  == VAdd(probe.ray.orig, VScale(probe.ray.dir, hit.dist))
               IN /\ FGt(hit.dist, Eps7)
                  /\ FEq(hit.dist, PlanT)
                  /\ VEq(hit.pos, at)
                  /\ FEq(dot(VSub(at, probe.object.pos), probe.object.norm), Zero)
                  /\ VEq(hit.normal, probe.object.norm)
                         \/ VEq(hit.normal, VNeg(probe.object.norm))
                  /\ FLt(dot(hit.normal, probe.ray.dir), Zero)
        /\ (/\ FGt(FAbs(dot(probe.ray.dir, probe.object.norm)), Eps7)
            /\ FLe(PlanT, Eps7)) => probe.result = None

\* A plane hit from the side its stored normal points away from: the
\* returned normal is the opposite of the stored one.
C12_Witness ==
    /\ PlanSolved
    /\ IsSome(probe.result)
    /\ FGt(dot(probe.ray.dir, probe.object.norm), Zero)
    /\ VEq(Unwrap(probe.result).normal, VNeg(probe.object.norm))
    /\ ~VEq(Unwrap(probe.result).normal, probe.object.norm)

\* A plane behind the origin of the ray: no hit.
C12_WitnessBehind ==
    /\ PlanSolved
    /\ FGt(FAbs(dot(probe.ray.dir, probe.object.norm)), Eps7)
    /\ FLt(PlanT, Zero)
    /\ probe.result = None

\* C13: Plan::intersect returns None for every ray whose direction is
\* orthogonal to the normal of the plane, |D.N| <= 1e-7, wherever the plane
\* and the origin of the ray are, the origin in the plane included.
C13_ParallelMiss ==
    (PlanSolved /\ FLe(FAbs(dot(probe.ray.dir, probe.object.norm)), Eps7)) =>
        probe.result = None

\* A ray that runs inside the plane: its origin is in the plane and its
\* direction is orthogonal to the normal.
C13_Witness ==
    /\ PlanSolved
    /\ FEq(dot(probe.ray.dir, probe.object.norm), Zero)
    /\ FEq(dot(VSub(probe.ray.orig, probe.object.pos), probe.object.norm), Zero)
    /\ probe.result = None

\* A ray that closes on a plane ahead of it by 5e-8 per unit.
C13_WitnessGrazing ==
    /\ PlanSolved
    /\ ~FEq(dot(probe.ray.dir, probe.object.norm), Zero)
    /\ FLe(FAbs(dot(probe.ray.dir, probe.object.norm)), Eps7)
    /\ FGt(PlanT, Zero)
    /\ probe.result = None

----------------------------------------------------------------------------
(* Properties of Polynom2::roots, checked under RootsSpec.                  *)

\* The quadratic formula on delta = b^2 - 4ac: no root below zero, the
\* tangent root -b / (2a) with a NaN second value up to 1e-7, and the two
\* roots in ascending order above.
ReferenceRoots(a, b, c) ==
    LET delta == discriminant(a, b, c)
    IN IF FLt(delta, Zero) THEN None
       ELSE IF FLe(delta, Eps7)
            THEN Some(<<FDiv(FNeg(b), FMul(Two, a)), NAN>>)
       ELSE LET lo == FDiv(FSub(FNeg(b), FSqrt(delta)), FMul(Two, a))
                hi == FDiv(FAdd(FNeg(b), FSqrt(delta)), FMul(Two, a))
            IN IF FLe(lo, hi) THEN Some(<<lo, hi>>) ELSE Some(<<hi, lo>>)

\* C7: for a # 0, Polynom2::roots returns what the quadratic formula gives:
\* None when delta < 0, <<-b / (2a), NaN>> when delta is within 1e-7 of
\* zero, and the two roots in ascending order otherwise.
C7_RootsAgree ==
    (probe.op = "roots" /\ pc = "done" /\ ~IsZero(probe.a)) =>
        probe.result = ReferenceRoots(probe.a, probe.b, probe.c)
----------------------------------------------------------------------------
(* Properties of maths::Quaternion, checked under QuatSpec.                 *)

Composed == pc = "done" /\ probe.op = "compose"

ArcCalled == pc = "done" /\ probe.op = "from_arc"

UnitArc == ArcCalled /\ probe.from \in UnitVectors /\ probe.to \in UnitVectors

\* The square root Quaternion::normalize takes in from_arc is exact.
ArcExact == SqrtExact(norm2(arc_operand(probe.from, probe.to)))

\* Two vectors within 1e-6 of each other, coordinate by coordinate.
Within6(u, v) ==
    /\ FLe(FAbs(FSub(u.x, v.x)), Eps6)
    /\ FLe(FAbs(FSub(u.y, v.y)), Eps6)
    /\ FLe(FAbs(FSub(u.z, v.z)), Eps6)

ArcMaps ==
    /\ probe.result.tag = "Ok"
    /\ QIsNormalized(probe.result.value)
    /\ Within6(rotate_vector(probe.result.value, probe.from), probe.to)

\* C17: for unit vectors a and b, Quaternion::from_arc(a, b) returns a unit
\* quaternion whose rotation maps a onto b (within 1e-6), in each of its
\* three branches.
C17_ArcMaps == (UnitArc /\ ArcExact) => ArcMaps

\* The same away from the two thresholds: b is not one of the vectors at
\* 4.9e-4 radians from a or from -a.
C17_AwayFromThresholds == (UnitArc /\ ArcExact /\ probe.to \notin NearZ) => ArcMaps

C17_Parallel == UnitArc /\ debug /\ probe.from = probe.to /\ ArcMaps

C17_Antiparallel ==
    /\ UnitArc
    /\ debug
    /\ probe.from = VQ(1, 0, 0, 1)
    /\ probe.to = VQ(-1, 0, 0, 1)
    /\ ArcMaps

C17_General ==
    /\ UnitArc
    /\ debug
    /\ probe.from = VQ(2, 2, 1, 3)
    /\ probe.to = VQ(2, -2, -1, 3)
    /\ ArcExact
    /\ ArcMaps

Rotated == pc = "done" /\ probe.op \in RotateOps

QuatUsed == pc = "done" /\ probe.op \in RotateOps \cup {"recip"}

\* C19: rotate_vector, Quaternion * Vector, Vector * Quaternion and recip
\* fail when the quaternion is not a unit quaternion, in debug and in
\* release builds alike: none of them returns a value.
C19_NonUnitFails == (QuatUsed /\ ~QIsNormalized(probe.q)) => probe.result = Panic

\* The same in debug builds only.
C19_NonUnitFailsInDebug ==
    (QuatUsed /\ debug /\ ~QIsNormalized(probe.q)) => probe.result = Panic

\* A release build rotates (1,2,3) by the quaternion 2 and returns (4,8,12).
C19_SilentlyWrong ==
    /\ QuatUsed
    /\ ~debug
    /\ probe.op = "rotate_vector"
    /\ probe.q = Quat(Int2F(2), Zero, Zero, Zero)
    /\ probe.v = VQ(1, 2, 3, 1)
    /\ probe.result = Ok(VQ(4, 8, 12, 1))

\* Vector::is_normalized; the vectors of NearZ are unit vectors by
\* construction, and their squares are beyond the 32-bit integers.
IsUnit(u) == u \in NearZ \/ is_normalized(u)

\* C20: in a debug build Quaternion::from_arc(from, to) panics when `from`
\* or `to` is not a unit vector.
C20_NonUnitRejected ==
    (ArcCalled /\ debug /\ (~IsUnit(probe.from) \/ ~IsUnit(probe.to)))
        => probe.result = Panic

\* What the assertions do reject: a `from` that is not a unit vector.
C20_NonUnitFromRejected ==
    (ArcCalled /\ debug /\ ~is_normalized(probe.from)) => probe.result = Panic

\* A debug build takes a unit `from` with a `to` of magnitude 2 and returns
\* the identity.
C20_NonUnitToAccepted ==
    /\ ArcCalled
    /\ debug
    /\ probe.from = VQ(0, 0, 1, 1)
    /\ probe.to = VQ(0, 0, 2, 1)
    /\ probe.result = Ok(IDENTITY)

----------------------------------------------------------------------------
(* Properties of the shader stages, checked under ShaderSpec.               *)

FastCalled == pc = "done" /\ probe.op = "compute_color" /\ probe.stage = Fast

\* The facing term of the call: ray.dir . (-normal).
Facing == dot(probe.ray.dir, VNeg(probe.intersection.normal))

\* A finite value truncated toward zero, as a signed integer.
Trunc(x) == IF x.s = 1 THEN -(x.n \div x.d) ELSE x.n \div x.d

Scaled(i) == Trunc(FMul(Int2F(probe.color[i]), Facing))

\* C21: the Fast stage returns each of R, G, B scaled by the facing term
\* ray.dir . (-normal), negative and above-range products included: the
\* channel it returns is the (truncated) product, not a clamped value.
C21_FastUnclamped ==
    FastCalled => \A i \in 1..3 : probe.result[i] = Scaled(i)

\* The same for the products that fit a channel.
C21_FastInRange ==
    (FastCalled /\ \A i \in 1..3 : Scaled(i) \in 0..255)
        => \A i \in 1..3 : probe.result[i] = Scaled(i)

\* The products outside 0..255 come back as 0 or 255.
C21_FastSaturates ==
    FastCalled =>
        \A i \in 1..3 :
            /\ Scaled(i) < 0 => probe.result[i] = 0
            /\ Scaled(i) > 255 => probe.result[i] = 255

C21_NegativeFacing ==
    /\ FastCalled
    /\ FEq(Facing, Int2F(-1))
    /\ probe.color = Rgba(200, 100, 50, 255)
    /\ probe.result = Rgba(0, 0, 0, 255)

C21_FacingAboveOne ==
    /\ FastCalled
    /\ FEq(Facing, Two)
    /\ probe.color = Rgba(200, 100, 50, 255)
    /\ probe.result = Rgba(255, 200, 100, 255)

Encoded == pc = "done" /\ probe.op = "encode"

\* C22: GammaEncoder::encode with factor 1 returns R, G and B unchanged, for
\* every channel value 0..255, and with any factor returns alpha unchanged.
C22_GammaOneIdentity ==
    Encoded =>
        /\ probe.result[4] = probe.color[4]
        /\ probe.stage.factor = One =>
               \A i \in 1..3 : probe.result[i] = probe.color[i]

\* Factor 1 on a colour whose channels are neither 0 nor 255, with an alpha
\* that is not 0xFF.
C22_Witness ==
    /\ Encoded
    /\ probe.stage.factor = One
    /\ probe.color = Rgba(1, 254, 7, 128)
    /\ probe.result = probe.color

\* Factor 2.2 changes the channels and keeps the alpha.
C22_WitnessGamma ==
    /\ Encoded
    /\ probe.stage.factor = Q(22, 10)
    /\ probe.color = Rgba(1, 254, 7, 0)
    /\ probe.result = Rgba(20, 254, 49, 0)

----------------------------------------------------------------------------
(* Properties of SceneBuilder, checked under BuilderSpec.                   *)

BuilderUsed == probe.op = "builder" /\ probe.calls # <<>>

\* The arguments of the calls of one name, in call order.
RECURSIVE ArgsOf(_, _)
ArgsOf(calls, name) ==
    IF calls = <<>> THEN <<>>
    ELSE IF Head(calls).call = name
         THEN <<Head(calls).arg>> \o ArgsOf(Tail(calls), name)
    ELSE ArgsOf(Tail(calls), name)

LastCall == probe.calls[Len(probe.calls)].call

\* C24: the builder only appends.  Its objects and lights are the arguments
\* of the with_object and with_light calls in call order; with_object
\* changes neither lights nor ambient, with_light neither objects nor
\* ambient, with_ambiant neither objects nor lights; build() returns a scene
\* of exactly these objects and lights, leaves the builder unchanged, and
\* returns an equal scene when called again.
C24_AppendOnly ==
    BuilderUsed =>
        /\ probe.builder.objects = ArgsOf(probe.calls, "with_object")
        /\ probe.builder.lights = ArgsOf(probe.calls, "with_light")
        /\ LastCall = "with_object" =>
               /\ probe.builder.lights = probe.before.lights
               /\ probe.builder.ambiant = probe.before.ambiant
        /\ LastCall = "with_light" =>
               /\ probe.builder.objects = probe.before.objects
               /\ probe.builder.ambiant = probe.before.ambiant
        /\ LastCall = "with_ambiant" =>
               /\ probe.builder.objects = probe.before.objects
               /\ probe.builder.lights = probe.before.lights
        /\ LastCall = "build" =>
               /\ scene.objects = ArgsOf(probe.calls, "with_object")
               /\ scene.lights = ArgsOf(probe.calls, "with_light")
               /\ probe.builder = probe.before
               /\ (Len(probe.calls) > 1 /\ probe.calls[Len(probe.calls) - 1].call = "build")
                      => scene = probe.previous

\* Two different objects and a light appended, then two builds in a row.
C24_Witness ==
    /\ BuilderUsed
    /\ Len(probe.calls) = 4
    /\ probe.calls[1].call = "with_object"
    /\ probe.calls[2].call = "with_object"
    /\ probe.calls[1].arg # probe.calls[2].arg
    /\ probe.calls[3].call = "build"
    /\ probe.calls[4].call = "build"
    /\ scene.objects = <<probe.calls[1].arg, probe.calls[2].arg>>
    /\ scene = probe.previous

----------------------------------------------------------------------------
(* Properties of the library crate of lib.rs, checked under LegacySpec.     *)

Traced == pc = "done" /\ probe.op = "trace_ray"

\* The same scene and ray traced with a recursion budget of 0.
WithoutRecursion == trace_ray(probe.scene, probe.ray, 0)

\* C25: the colour Scene::trace_ray returns for a scene and a ray does not
\* depend on the recursion budget: the run with recursion_max returns the
\* colour the run with a budget of 0 returns, and descends at most
\* recursion_max levels.
C25_BudgetIndependent ==
    Traced =>
        /\ probe.result.tag = "Ok"
        /\ WithoutRecursion.tag = "Ok"
        /\ probe.result.color = WithoutRecursion.color
        /\ probe.result.levels <= probe.recursion_max

\* The same when every sphere of the scene has a radius that is a number.
C25_NumbersOnly ==
    (Traced /\ \A k \in 1..Len(probe.scene.objects) : ~is_nan(probe.scene.objects[k].radius))
        => /\ probe.result.tag = "Ok"
           /\ probe.result.color = WithoutRecursion.color
           /\ probe.result.levels <= probe.recursion_max

\* Whatever the scene, a run that returns has descended at most
\* recursion_max levels.
C25_DepthBounded ==
    (Traced /\ probe.result.tag = "Ok") => probe.result.levels <= probe.recursion_max

\* A mirror sphere lit in blue, hit head on: the whole budget is spent and
\* the colour is the one of the run without recursion.
C25_FullDepth ==
    /\ Traced
    /\ probe.recursion_max = MaxRecursion
    /\ probe.result.tag = "Ok"
    /\ probe.result.levels = MaxRecursion
    /\ probe.scene.lights # <<>>
    /\ probe.result.color # probe.scene.background_color
    /\ probe.result.color = WithoutRecursion.color

\* A mirror sphere of radius NaN: the run with a budget of 1 panics, the
\* run without recursion returns the background.
C25_PanicWithBudget ==
    /\ Traced
    /\ probe.recursion_max = 1
    /\ Len(probe.scene.objects) = 1
    /\ probe.result.tag = "panic"
    /\ WithoutRecursion.tag = "Ok"
    /\ WithoutRecursion.color = probe.scene.background_color

----------------------------------------------------------------------------
(* Properties of shapes::Sphere::intersect and Polynomial2::root, checked   *)
(* under LegacySpec.                                                        *)

\* shapes::Sphere::intersect has returned.
Intersected == probe.op = "intersect" /\ pc = "done"

\* b^2 - 4ac of the call's quadratic.
Discriminant(poly) == FSub(FMul(poly.b, poly.b), FMul(FMul(Four, poly.a), poly.c))

\* (-b - sqrt(delta)) / (2a) and (-b + sqrt(delta)) / (2a)
LowRoot(poly) == FDiv(FSub(FNeg(poly.b), FSqrt(Discriminant(poly))), FMul(Two, poly.a))

HighRoot(poly) == FDiv(FAdd(FNeg(poly.b), FSqrt(Discriminant(poly))), FMul(Two, poly.a))

\* The call's quadratic has real roots that the model computes exactly.
RealRoots(poly) == ~FLt(Discriminant(poly), Zero) /\ SqrtExact(Discriminant(poly))

\* The intersection is at the smallest positive root, and absent only when
\* no root is positive.
SmallestPositive(poly) ==
    IF FGt(LowRoot(poly), Zero)
    THEN IsSome(probe.result) /\ FEq(Unwrap(probe.result).distance, LowRoot(poly))
    ELSE IF FGt(HighRoot(poly), Zero)
    THEN IsSome(probe.result) /\ FEq(Unwrap(probe.result).distance, HighRoot(poly))
    ELSE probe.result = None

\* C28: shapes::Sphere::intersect returns the intersection at the smallest
\* positive root of its quadratic and None only when no root is positive,
\* so that a ray starting inside the sphere hits it at the positive root;
\* Polynomial2::root returns the two distinct roots (-b - sqrt(delta))/(2a)
\* and (-b + sqrt(delta))/(2a) when delta > 0.
C28_SmallestPositiveRoot ==
    (Intersected /\ RealRoots(ShapeCoef(probe.shape, probe.ray))) =>
        LET Of(poly) ==
                /\ SmallestPositive(poly)
                /\ FGt(Discriminant(poly), Zero) =>
                       probe.roots = Some(<<LowRoot(poly), HighRoot(poly)>>)
        IN Of(ShapeCoef(probe.shape, probe.ray))

\* The same for the intersection alone, on the spheres in front of the
\* ray's origin that the ray cuts in two points: it holds.
C28_SphereAhead ==
    (/\ Intersected
     /\ RealRoots(ShapeCoef(probe.shape, probe.ray))
     /\ FGt(Discriminant(ShapeCoef(probe.shape, probe.ray)), Zero)
     /\ FGt(LowRoot(ShapeCoef(probe.shape, probe.ray)), Zero))
        => SmallestPositive(ShapeCoef(probe.shape, probe.ray))

\* What Polynomial2::root returns when delta > 0: the lower root twice.
C28_LowRootTwice ==
    (/\ Intersected
     /\ RealRoots(ShapeCoef(probe.shape, probe.ray))
     /\ FGt(Discriminant(ShapeCoef(probe.shape, probe.ray)), Zero))
        => LET Of(low) == probe.roots = Some(<<low, low>>)
           IN Of(LowRoot(ShapeCoef(probe.shape, probe.ray)))

\* A ray that starts inside the sphere of radius 13 centred five units
\* ahead: the roots are -8 and 18, and no intersection is returned.
C28_InsideMissed ==
    /\ Intersected
    /\ probe.shape.radius = Int2F(13)
    /\ probe.ray.dir = VecZ
    /\ LowRoot(ShapeCoef(probe.shape, probe.ray)) = Int2F(-8)
    /\ HighRoot(ShapeCoef(probe.shape, probe.ray)) = Int2F(18)
    /\ probe.result = None

\* A ray whose direction is not a unit vector, tangent to the sphere: the
\* double root is -b / 2 * a instead of -b / (2a).
C28_TangentScaled ==
    /\ Intersected
    /\ FEq(Discriminant(ShapeCoef(probe.shape, probe.ray)), Zero)
    /\ IsSome(probe.result)
    /\ ~FEq(Unwrap(probe.result).distance, LowRoot(ShapeCoef(probe.shape, probe.ray)))

----------------------------------------------------------------------------
(* Properties of Image::draw_pixel and Renderer::render, checked under      *)
(* ImageSpec.                                                               *)

ImageUsed == probe.op = "image"

\* The pixels of the renderer's image.
PixelsOf(image) == (0..(image.x - 1)) \X (0..(image.y - 1))

\* The four bytes of an image at the offsets 4 * (x * Y + y) .. + 3.
BytesAt(image, x, y) ==
    LET Of(at) == <<image.data[at + 1], image.data[at + 2], image.data[at + 3],
                    image.data[at + 4]>>
    IN Of(4 * (x * image.y + y))

\* What a pixel holds once the colour is drawn to it.
Opaque(color) == <<color[2], color[3], color[4], 255>>

\* The last call was a draw_pixel: it returned, the four offsets are inside
\* the buffer of 4 * X * Y bytes and hold the colour with 0xFF, and every
\* other byte is as before.
DrawnFour ==
    (ImageUsed /\ probe.call.name = "draw_pixel") =>
        LET Of(image, at) ==
                /\ probe.call.tag = "Ok"
                /\ Len(image.data) = 4 * image.x * image.y
                /\ at + 3 < Len(image.data)
                /\ BytesAt(image, probe.call.x, probe.call.y) = Opaque(probe.call.color)
                /\ \A i \in 1..Len(image.data) :
                       i \notin (at + 1)..(at + 4) =>
                           image.data[i] = probe.call.before.data[i]
        IN Of(probe.renderer.image, 4 * (probe.call.x * probe.renderer.image.y + probe.call.y))

\* Two different pixels are written at byte ranges that do not meet.
Disjoint ==
    ImageUsed =>
        \A p \in PixelsOf(probe.renderer.image), q \in PixelsOf(probe.renderer.image) :
            p # q =>
                LET Apart(a, b) == a + 3 < b \/ b + 3 < a
                IN Apart(AsUsize(draw_index(probe.renderer.image, p[1], p[2])),
                         AsUsize(draw_index(probe.renderer.image, q[1], q[2])))

\* The render drew every pixel of the image exactly once.
EveryPixelOnce ==
    \A p \in PixelsOf(probe.renderer.image) :
        Cardinality({ k \in 1..Len(probe.call.drawn) :
                        probe.call.drawn[k].x = p[1] /\ probe.call.drawn[k].y = p[2] }) = 1

\* Each pixel holds the last colour drawn to it, and a pixel never drawn
\* is as Image::new left it.
HoldsLast ==
    ImageUsed =>
        \A p \in PixelsOf(probe.renderer.image) :
            LET Of(last) ==
                    BytesAt(probe.renderer.image, p[1], p[2])
                        = IF IsSome(last) THEN Opaque(Unwrap(last))
                          ELSE BytesAt(probe.initial, p[1], p[2])
            IN Of(probe.held[PixelOf(probe.renderer.image, p[1], p[2])])

\* The byte size 4 * X * Y of the image fits in u32.
SizeFits(image) == ~wrapping_mul(wrapping_mul(U32(4), U32(image.x)), U32(image.y)).wrapped

\* On an image whose size fits, the index of a pixel is computed without
\* wrapping, is 4 * (x * Y + y), and its four bytes are inside the buffer.
IndexInside ==
    (/\ probe.op = "index"
     /\ SizeFits(probe.image)
     /\ probe.x < probe.image.x
     /\ probe.y < probe.image.y) =>
        LET Of(index, size, expected) ==
                /\ ~index.wrapped
                /\ ~expected.wrapped
                /\ index = expected
                /\ U32Lt(wrapping_add(index, U32(3)), size)
                /\ ~wrapping_add(index, U32(3)).wrapped
        IN Of(probe.index,
              wrapping_mul(wrapping_mul(U32(4), U32(probe.image.x)), U32(probe.image.y)),
              wrapping_mul(U32(4), wrapping_add(wrapping_mul(U32(probe.x), U32(probe.image.y)),
                                                U32(probe.y))))

\* C30: on an image of X x Y pixels whose 4 * X * Y bytes fit in u32,
\* draw_pixel(x, y, color) with x < X and y < Y writes exactly the four
\* bytes at 4 * (x * Y + y) .. + 3, inside the buffer, the fourth being
\* 0xFF; different pixels write ranges that do not meet; Renderer::render
\* draws every pixel exactly once; and after any sequence of draws each
\* pixel holds the last colour drawn to it, no other pixel being altered.
C30_PixelsDrawnOnce ==
    /\ DrawnFour
    /\ Disjoint
    /\ HoldsLast
    /\ IndexInside
    /\ (ImageUsed /\ probe.call.name = "render") =>
           (probe.call.tag = "Ok" /\ EveryPixelOnce)

\* The same, with the renders that return in place of every render: it
\* holds.
C30_ReturnedRenders ==
    /\ DrawnFour
    /\ Disjoint
    /\ HoldsLast
    /\ IndexInside
    /\ (ImageUsed /\ probe.call.name = "render" /\ probe.call.tag = "Ok") =>
           EveryPixelOnce

\* A render that panicked in trace_ray before any pixel was drawn.
C30_RenderPanicked ==
    /\ ImageUsed
    /\ probe.call.name = "render"
    /\ probe.call.tag = "panic"
    /\ probe.call.drawn = <<>>
    /\ probe.renderer.recursion_max = 1

\* A render of four pixels that returned, one of them lit.
C30_Rendered ==
    /\ ImageUsed
    /\ probe.call.name = "render"
    /\ probe.call.tag = "Ok"
    /\ Len(probe.call.drawn) = 4
    /\ probe.call.drawn[4].color = <<0, 0, 0, 204>>
    /\ BytesAt(probe.renderer.image, 1, 1) = <<0, 0, 204, 255>>

\* A pixel drawn over a filled image, the other pixels keeping the fill.
C30_DrawnOver ==
    /\ ImageUsed
    /\ probe.call.name = "draw_pixel"
    /\ probe.call.x = 1
    /\ probe.call.y = 0
    /\ probe.renderer.image.y = 2
    /\ BytesAt(probe.renderer.image, 1, 0) = <<52, 86, 120, 255>>
    /\ BytesAt(probe.renderer.image, 0, 1) = <<255, 0, 255, 255>>

\* The last pixel of an image of 2^32 - 2^17 bytes: its index is the size
\* less four.
C30_LastPixel ==
    /\ probe.op = "index"
    /\ probe.image = [x |-> 32767, y |-> 32768]
    /\ probe.x = 32766
    /\ probe.y = 32767
    /\ probe.index = [hi |-> 65533, lo |-> 65532, wrapped |-> FALSE]

====
